---- MODULE Spec2Model ----
(***************************************************************************)
(* A model of the phase/session scheduling engine of RESTY                 *)
(* (src-tauri/src/services/timer.rs) together with the callers that drive  *)
(* it (commands/mod.rs, lib.rs, services/power.rs).                        *)
(*                                                                         *)
(* The engine state is one record guarded by one mutex.  Every action of   *)
(* the model is one critical section of the code (one lock()/drop pair)    *)
(* plus the lock-free calls that follow it; a method that takes the lock   *)
(* several times (tick, skip, start_work followed by persist_session_start,*)
(* the power handlers) is a sequence of actions linked by a program        *)
(* counter, so that the other thread may run in between.  Two threads are  *)
(* modelled: the ticker task and one caller (UI command, tray action or    *)
(* power monitor).                                                         *)
(*                                                                         *)
(* Time is an integer number of clock units; SubSecond units make one      *)
(* second, so that chrono's num_seconds() truncation is visible.           *)
(***************************************************************************)
EXTENDS Integers, Sequences, FiniteSets, TLC

\* ------------------------------------------------------------------ bounds

\* clock units per second (the resolution of the modelled wall clock)
SubSecond == 2
\* number of session ids (Uuid::new_v4) a run may draw
MaxSessions == 8
\* number of commands and power signals the caller issues in a run of Spec
MaxCommands == 3
\* the number of commands one run of TimerSpec issues
MaxTimerCommands == 2
\* the number of commands and power signals one run of PowerSpec issues
MaxPowerCommands == 5
\* the longest segment plan CycleSpec draws
MaxPlanLen == 3
\* the number of cursor advances one run of CycleSpec makes
MaxAdvances == 40
\* the number of five-minute steps of the clock in a run of RunSpec
MaxRunSteps == 42
\* five-minute steps of the clock in the runs checked for progress
MaxLiveSteps == 14
\* the number of twenty-minute steps of the clock in a run of PredictSpec
MaxPredictSteps == 5
\* the number of commands one run of PredictSpec issues
MaxPredictCommands == 3
\* the longest segment plan ConfigSpec draws
MaxConfigPlanLen == 2
\* the number of cursor advances and configuration updates in a run of ConfigSpec
MaxConfigCommands == 6
\* the number of commands one run of InfoSpec issues
MaxInfoCommands == 3
\* the number of commands one run of SignalSpec issues
MaxSignalCommands == 2
\* the number of commands one run of FaultSpec issues
MaxFaultCommands == 2
\* the number of commands one run of StoreSpec issues
MaxStoreCommands == 2

\* ------------------------------------------------------- program constants

SecondsPerMinute == 60
SecondsPerHour == 3600
MinMinutes == 1
MaxMinutes == 120
MaxRepeat == 12
ExtendMinutes == 5

\* ------------------------------------------------------------------ inputs

Segment(w, b, r) == [work_minutes |-> w, break_minutes |-> b, repeat |-> r]

\* the settings the engine is constructed from or reconfigured with
FlatSettings ==
    [work_duration |-> 25, break_duration |-> 5,
     segmented_work_enabled |-> FALSE, work_segments |-> <<>>]

SegmentedSettings ==
    [work_duration |-> 25, break_duration |-> 5,
     segmented_work_enabled |-> TRUE,
     work_segments |-> <<Segment(50, 10, 2), Segment(25, 5, 1)>>]

ShortSettings ==
    [work_duration |-> 10, break_duration |-> 5,
     segmented_work_enabled |-> TRUE,
     work_segments |-> <<Segment(0, 200, 13)>>]

\* the repeat counts segment plans are drawn from, as a user may enter them
PlanRepeats == {0, 1, 2, 3, MaxRepeat, MaxRepeat + 1}

\* the segment plans of length 1..MaxPlanLen over those repeat counts
Plans ==
    UNION {[1..n -> {Segment(25, 5, r) : r \in PlanRepeats}] : n \in 1..MaxPlanLen}

PlanSettings ==
    {[work_duration |-> 25, break_duration |-> 5,
      segmented_work_enabled |-> TRUE, work_segments |-> p] : p \in Plans}

\* the settings ConfigSpec constructs and reconfigures the engine with: the
\* flat settings and every plan of length 0..MaxConfigPlanLen over the repeat
\* counts 0..3, segmentation switched on
ConfigPlans ==
    UNION {[1..n -> {Segment(25, 5, r) : r \in 0..3}] : n \in 0..MaxConfigPlanLen}

ConfigSettings ==
    {FlatSettings}
        \cup {[work_duration |-> 25, break_duration |-> 5,
                segmented_work_enabled |-> TRUE, work_segments |-> p] :
                   p \in ConfigPlans}

\* hours offered by the tray menu (lib.rs) for "no break for n hours"
SuppressHours == {1}

\* --------------------------------------------------------------- utilities

None == <<>>
Some(x) == <<x>>
IsSome(o) == o # <<>>
Unwrap(o) == o[1]

Min(a, b) == IF a < b THEN a ELSE b
Max(a, b) == IF a > b THEN a ELSE b

\* ChronoDuration::seconds(n), ::hours(n) in clock units
seconds(n) == n * SubSecond
hours(n) == n * SecondsPerHour * SubSecond
\* ChronoDuration::num_seconds(): whole seconds, truncated towards zero
num_seconds(d) == IF d >= 0 THEN d \div SubSecond ELSE -((-d) \div SubSecond)

\* ------------------------------------------------- TimerServiceState (pure)

has_segments(s) == s.segmented_enabled /\ Len(s.segments) > 0

\* segment indices are 0-based in the code; segments[i] is s.segments[i + 1]
seg(s, i) == s.segments[i + 1]

apply_current_segment(s) ==
    IF has_segments(s)
    THEN LET idx == Min(s.segment_index, Len(s.segments) - 1)
         IN [s EXCEPT !.work_duration = Max(seg(s, idx).work_minutes, 1),
                      !.break_duration = Max(seg(s, idx).break_minutes, 1)]
    ELSE [s EXCEPT !.work_duration = Max(s.base_work_duration, 1),
                   !.break_duration = Max(s.base_break_duration, 1)]

reset_segment_progress(s) ==
    apply_current_segment([s EXCEPT !.segment_index = 0, !.segment_iteration = 0])

\* variant: every advance moves to the next segment, whatever its repeat count
advance_segment_cycle_ignoring_repeat(s) ==
    IF ~has_segments(s)
    THEN apply_current_segment(
             [s EXCEPT !.segment_index = 0, !.segment_iteration = 0])
    ELSE LET len == Len(s.segments)
             idx == Min(s.segment_index, len - 1)
         IN apply_current_segment(
                [s EXCEPT !.segment_iteration = 0,
                          !.segment_index = (idx + 1) % len])

\* variant: a segment is left only after one iteration more than its repeat
advance_segment_cycle_one_more(s) ==
    IF ~has_segments(s)
    THEN apply_current_segment(
             [s EXCEPT !.segment_index = 0, !.segment_iteration = 0])
    ELSE LET len == Len(s.segments)
             idx == Min(s.segment_index, len - 1)
             repeat == Max(seg(s, idx).repeat, 1)
         IN apply_current_segment(
                IF s.segment_iteration + 1 <= repeat
                THEN [s EXCEPT !.segment_iteration = s.segment_iteration + 1]
                ELSE [s EXCEPT !.segment_iteration = 0,
                               !.segment_index = (idx + 1) % len])

advance_segment_cycle(s) ==
    IF ~has_segments(s)
    THEN apply_current_segment(
             [s EXCEPT !.segment_index = 0, !.segment_iteration = 0])
    ELSE LET len == Len(s.segments)
             idx == Min(s.segment_index, len - 1)
             repeat == Max(seg(s, idx).repeat, 1)
         IN apply_current_segment(
                IF s.segment_iteration + 1 < repeat
                THEN [s EXCEPT !.segment_iteration = s.segment_iteration + 1]
                ELSE [s EXCEPT !.segment_iteration = 0,
                               !.segment_index = (idx + 1) % len])

\* ------------------------------------------------------ TimerService (pure)

sanitize_segment(segment) ==
    [work_minutes |->
         IF segment.work_minutes = 0 THEN MinMinutes
         ELSE IF segment.work_minutes > MaxMinutes THEN MaxMinutes
         ELSE segment.work_minutes,
     break_minutes |->
         IF segment.break_minutes = 0 THEN MinMinutes
         ELSE IF segment.break_minutes > MaxMinutes THEN MaxMinutes
         ELSE segment.break_minutes,
     repeat |->
         IF segment.repeat = 0 THEN 1
         ELSE IF segment.repeat > MaxRepeat THEN MaxRepeat
         ELSE segment.repeat]

sanitize_keep(sg) == sg.work_minutes > 0 /\ sg.break_minutes > 0

sanitize_segments(segments) ==
    SelectSeq([i \in 1..Len(segments) |-> sanitize_segment(segments[i])],
               sanitize_keep)

\* TimerService::new: the state after construction
new(settings, flow_mode) ==
    LET sanitized == sanitize_segments(settings.work_segments)
    IN reset_segment_progress(
        [phase |-> "Idle",
         state |-> "Stopped",
         remaining_seconds |-> 0,
         total_seconds |-> 0,
         work_duration |-> settings.work_duration,
         break_duration |-> settings.break_duration,
         base_work_duration |-> settings.work_duration,
         base_break_duration |-> settings.break_duration,
         flow_mode |-> flow_mode,
         segmented_enabled |-> settings.segmented_work_enabled /\ Len(sanitized) > 0,
         segments |-> sanitized,
         segment_index |-> 0,
         segment_iteration |-> 0,
         phase_end_time |-> None,
         current_session_id |-> None,
         current_session_start |-> None,
         auto_cycle |-> TRUE,
         suppress_breaks_until |-> None,
         paused_due_to_display_off |-> FALSE,
         paused_due_to_system_suspend |-> FALSE])

\* the critical section of start_work; t is Utc::now(), id the fresh uuid
\* variant: start_work begins again at the first segment
start_work_resetting_cursor(s, t, id) ==
    LET a == reset_segment_progress(s)
        work_seconds == a.work_duration * SecondsPerMinute
    IN [a EXCEPT !.phase = "Work",
                 !.state = "Running",
                 !.total_seconds = work_seconds,
                 !.remaining_seconds = work_seconds,
                 !.phase_end_time = Some(t + seconds(work_seconds)),
                 !.current_session_id = Some(id),
                 !.current_session_start = Some(t),
                 !.paused_due_to_display_off = FALSE]

start_work(s, t, id) ==
    LET a == apply_current_segment(s)
        work_seconds == a.work_duration * SecondsPerMinute
    IN [a EXCEPT !.phase = "Work",
                 !.state = "Running",
                 !.total_seconds = work_seconds,
                 !.remaining_seconds = work_seconds,
                 !.phase_end_time = Some(t + seconds(work_seconds)),
                 !.current_session_id = Some(id),
                 !.current_session_start = Some(t),
                 !.paused_due_to_display_off = FALSE]

\* the critical section of start_break
\* variant: the break is given the length of the work phase
start_break_with_work_duration(s, t, id) ==
    LET a == apply_current_segment(s)
        break_seconds == a.work_duration * SecondsPerMinute
    IN [a EXCEPT !.phase = "Break",
                 !.state = "Running",
                 !.total_seconds = break_seconds,
                 !.remaining_seconds = break_seconds,
                 !.phase_end_time = Some(t + seconds(break_seconds)),
                 !.current_session_id = Some(id),
                 !.current_session_start = Some(t),
                 !.paused_due_to_display_off = FALSE]

start_break(s, t, id) ==
    LET a == apply_current_segment(s)
        break_seconds == a.break_duration * SecondsPerMinute
    IN [a EXCEPT !.phase = "Break",
                 !.state = "Running",
                 !.total_seconds = break_seconds,
                 !.remaining_seconds = break_seconds,
                 !.phase_end_time = Some(t + seconds(break_seconds)),
                 !.current_session_id = Some(id),
                 !.current_session_start = Some(t),
                 !.paused_due_to_display_off = FALSE]

update_remaining_seconds(s, t) ==
    IF IsSome(s.phase_end_time)
    THEN LET end_time == Unwrap(s.phase_end_time)
         IN IF t >= end_time
            THEN [s EXCEPT !.remaining_seconds = 0]
            ELSE [s EXCEPT !.remaining_seconds = Max(num_seconds(end_time - t), 0)]
    ELSE s

\* variant: pause keeps the remaining_seconds of the last tick
pause_without_update(s, t) ==
    IF s.state = "Running"
    THEN [s EXCEPT !.state = "Paused", !.phase_end_time = None]
    ELSE s

pause(s, t) ==
    IF s.state = "Running"
    THEN [update_remaining_seconds([s EXCEPT !.state = "Paused"], t)
              EXCEPT !.phase_end_time = None]
    ELSE s

resume(s, t) ==
    IF s.state = "Paused"
    THEN [s EXCEPT !.state = "Running",
                   !.phase_end_time =
                       IF s.remaining_seconds > 0
                       THEN Some(t + seconds(s.remaining_seconds))
                       ELSE Some(t),
                   !.paused_due_to_display_off = FALSE,
                   !.paused_due_to_system_suspend = FALSE]
    ELSE s

\* variant: the extension is added to the remaining time and the deadline only
extend_remaining_only(s, minutes) ==
    LET additional_seconds == Max(minutes, 1) * SecondsPerMinute
    IN [s EXCEPT !.remaining_seconds = s.remaining_seconds + additional_seconds,
                 !.phase_end_time =
                     IF IsSome(s.phase_end_time)
                     THEN Some(Unwrap(s.phase_end_time) + seconds(additional_seconds))
                     ELSE None]

\* variant: extend without the minimum of one minute
extend_without_minimum(s, minutes) ==
    LET additional_seconds == minutes * SecondsPerMinute
    IN [s EXCEPT !.remaining_seconds = s.remaining_seconds + additional_seconds,
                 !.total_seconds = s.total_seconds + additional_seconds,
                 !.phase_end_time =
                     IF IsSome(s.phase_end_time)
                     THEN Some(Unwrap(s.phase_end_time) + seconds(additional_seconds))
                     ELSE None]

extend(s, minutes) ==
    LET additional_seconds == Max(minutes, 1) * SecondsPerMinute
    IN [s EXCEPT !.remaining_seconds = s.remaining_seconds + additional_seconds,
                 !.total_seconds = s.total_seconds + additional_seconds,
                 !.phase_end_time =
                     IF IsSome(s.phase_end_time)
                     THEN Some(Unwrap(s.phase_end_time) + seconds(additional_seconds))
                     ELSE None]

\* variant: stop resets the phase but leaves the run state as it was
stop_keeping_run_state(s) ==
    [s EXCEPT !.phase = "Idle",
              !.remaining_seconds = 0,
              !.total_seconds = 0,
              !.phase_end_time = None,
              !.current_session_id = None,
              !.current_session_start = None,
              !.paused_due_to_display_off = FALSE,
              !.paused_due_to_system_suspend = FALSE]

\* variant: stop leaves the session identity as it was
stop_keeping_session(s) ==
    [s EXCEPT !.phase = "Idle",
              !.state = "Stopped",
              !.remaining_seconds = 0,
              !.total_seconds = 0,
              !.phase_end_time = None,
              !.paused_due_to_display_off = FALSE,
              !.paused_due_to_system_suspend = FALSE]

stop(s) ==
    [s EXCEPT !.phase = "Idle",
              !.state = "Stopped",
              !.remaining_seconds = 0,
              !.total_seconds = 0,
              !.phase_end_time = None,
              !.current_session_id = None,
              !.current_session_start = None,
              !.paused_due_to_display_off = FALSE,
              !.paused_due_to_system_suspend = FALSE]

session_type_of(phase) == IF phase = "Break" THEN "Break" ELSE "Work"

\* create_session_record; t is Utc::now(), fresh the uuid used when the state
\* holds no session id
create_session_record(s, is_skipped, t, fresh) ==
    LET start_time == IF IsSome(s.current_session_start)
                      THEN Unwrap(s.current_session_start) ELSE t
    IN [id |-> IF IsSome(s.current_session_id)
               THEN Unwrap(s.current_session_id) ELSE fresh,
        session_type |-> session_type_of(s.phase),
        start_time |-> start_time,
        end_time |-> t,
        duration |-> num_seconds(t - start_time),
        planned_duration |-> s.total_seconds,
        is_skipped |-> is_skipped,
        extended_seconds |-> 0]

\* variant: the placeholder is given an id of its own
placeholder_session_with_fresh_id(s, t, fresh) ==
    LET start_time == IF IsSome(s.current_session_start)
                      THEN Unwrap(s.current_session_start) ELSE t
    IN [id |-> fresh,
        session_type |-> session_type_of(s.phase),
        start_time |-> start_time,
        end_time |-> start_time,
        duration |-> 0,
        planned_duration |-> s.total_seconds,
        is_skipped |-> FALSE,
        extended_seconds |-> 0]

\* the placeholder persist_session_start builds from the state it reads
placeholder_session(s, t, fresh) ==
    LET start_time == IF IsSome(s.current_session_start)
                      THEN Unwrap(s.current_session_start) ELSE t
    IN [id |-> IF IsSome(s.current_session_id)
               THEN Unwrap(s.current_session_id) ELSE fresh,
        session_type |-> session_type_of(s.phase),
        start_time |-> start_time,
        end_time |-> start_time,
        duration |-> 0,
        planned_duration |-> s.total_seconds,
        is_skipped |-> FALSE,
        extended_seconds |-> 0]

\* tick's early return: it acts only while Running; the variant has no early
\* return
tick_runs_always(s) == TRUE
tick_runs(s) == s.state = "Running"

\* whether tick finds the deadline reached; the variant finishes whenever a
\* deadline is set
tick_finished_whenever_deadline_set(s, t) == IsSome(s.phase_end_time)
\* variant: tick never finds the deadline reached
tick_never_finished(s, t) == FALSE
tick_finished(s, t) == IsSome(s.phase_end_time) /\ t >= Unwrap(s.phase_end_time)

\* whether tick finds an unexpired suppression window; the variant never does
suppress_breaks_never_active(s, t) == FALSE
\* variant: a window that was set never expires
suppress_breaks_active_while_set(s, t) == IsSome(s.suppress_breaks_until)
suppress_breaks_active(s, t) ==
    IsSome(s.suppress_breaks_until) /\ t < Unwrap(s.suppress_breaks_until)

\* variant: tick counts remaining_seconds down by one instead of recomputing it
tick_countdown(s, t) ==
    LET a == IF IsSome(s.phase_end_time)
             THEN IF t >= Unwrap(s.phase_end_time)
                  THEN [s EXCEPT !.remaining_seconds = 0, !.phase_end_time = None]
                  ELSE [s EXCEPT !.remaining_seconds = Max(s.remaining_seconds - 1, 0)]
             ELSE s
    IN IF IsSome(a.suppress_breaks_until) /\ ~(t < Unwrap(a.suppress_breaks_until))
       THEN [a EXCEPT !.suppress_breaks_until = None]
       ELSE a

\* the critical section of tick while Running: the new engine state
tick(s, t) ==
    LET a == IF IsSome(s.phase_end_time)
             THEN IF t >= Unwrap(s.phase_end_time)
                  THEN [s EXCEPT !.remaining_seconds = 0, !.phase_end_time = None]
                  ELSE [s EXCEPT !.remaining_seconds =
                            Max(num_seconds(Unwrap(s.phase_end_time) - t), 0)]
             ELSE s
    IN IF IsSome(a.suppress_breaks_until) /\ ~(t < Unwrap(a.suppress_breaks_until))
       THEN [a EXCEPT !.suppress_breaks_until = None]
       ELSE a

\* variant: the cursor is kept when segmentation is switched off
update_timer_configuration_keeping_cursor(s, settings) ==
    LET segs == sanitize_segments(settings.work_segments)
        a == [s EXCEPT !.base_work_duration = Max(settings.work_duration, 1),
                       !.base_break_duration = Max(settings.break_duration, 1),
                       !.segments = segs,
                       !.segmented_enabled =
                           settings.segmented_work_enabled /\ Len(segs) > 0]
        b == IF ~a.segmented_enabled
             THEN a
             ELSE IF a.segment_index >= Len(a.segments)
             THEN [a EXCEPT !.segment_index = 0, !.segment_iteration = 0]
             ELSE IF a.segment_iteration >= Max(seg(a, a.segment_index).repeat, 1)
             THEN [a EXCEPT !.segment_iteration = 0]
             ELSE a
    IN apply_current_segment(b)

\* variant: the iteration is not checked against the new repeat count
update_timer_configuration_without_repeat_check(s, settings) ==
    LET segs == sanitize_segments(settings.work_segments)
        a == [s EXCEPT !.base_work_duration = Max(settings.work_duration, 1),
                       !.base_break_duration = Max(settings.break_duration, 1),
                       !.segments = segs,
                       !.segmented_enabled =
                           settings.segmented_work_enabled /\ Len(segs) > 0]
        b == IF ~a.segmented_enabled
             THEN [a EXCEPT !.segment_index = 0, !.segment_iteration = 0]
             ELSE IF a.segment_index >= Len(a.segments)
             THEN [a EXCEPT !.segment_index = 0, !.segment_iteration = 0]
             ELSE a
    IN apply_current_segment(b)

\* variant: a repeat count that shrank resets the index as well
update_timer_configuration_resetting_index(s, settings) ==
    LET segs == sanitize_segments(settings.work_segments)
        a == [s EXCEPT !.base_work_duration = Max(settings.work_duration, 1),
                       !.base_break_duration = Max(settings.break_duration, 1),
                       !.segments = segs,
                       !.segmented_enabled =
                           settings.segmented_work_enabled /\ Len(segs) > 0]
        b == IF ~a.segmented_enabled
             THEN [a EXCEPT !.segment_index = 0, !.segment_iteration = 0]
             ELSE IF a.segment_index >= Len(a.segments)
             THEN [a EXCEPT !.segment_index = 0, !.segment_iteration = 0]
             ELSE IF a.segment_iteration >= Max(seg(a, a.segment_index).repeat, 1)
             THEN [a EXCEPT !.segment_index = 0, !.segment_iteration = 0]
             ELSE a
    IN apply_current_segment(b)

\* variant: the phase in progress is given the new total length
update_timer_configuration_retiming_phase(s, settings) ==
    LET segs == sanitize_segments(settings.work_segments)
        a == [s EXCEPT !.base_work_duration = Max(settings.work_duration, 1),
                       !.base_break_duration = Max(settings.break_duration, 1),
                       !.segments = segs,
                       !.segmented_enabled =
                           settings.segmented_work_enabled /\ Len(segs) > 0]
        b == IF ~a.segmented_enabled
             THEN [a EXCEPT !.segment_index = 0, !.segment_iteration = 0]
             ELSE IF a.segment_index >= Len(a.segments)
             THEN [a EXCEPT !.segment_index = 0, !.segment_iteration = 0]
             ELSE IF a.segment_iteration >= Max(seg(a, a.segment_index).repeat, 1)
             THEN [a EXCEPT !.segment_iteration = 0]
             ELSE a
        c == apply_current_segment(b)
    IN IF c.phase = "Idle" THEN c
       ELSE [c EXCEPT !.total_seconds =
                          (IF c.phase = "Work" THEN c.work_duration
                           ELSE c.break_duration) * SecondsPerMinute]

update_timer_configuration(s, settings) ==
    LET segs == sanitize_segments(settings.work_segments)
        a == [s EXCEPT !.base_work_duration = Max(settings.work_duration, 1),
                       !.base_break_duration = Max(settings.break_duration, 1),
                       !.segments = segs,
                       !.segmented_enabled =
                           settings.segmented_work_enabled /\ Len(segs) > 0]
        b == IF ~a.segmented_enabled
             THEN [a EXCEPT !.segment_index = 0, !.segment_iteration = 0]
             ELSE IF a.segment_index >= Len(a.segments)
             THEN [a EXCEPT !.segment_index = 0, !.segment_iteration = 0]
             ELSE IF a.segment_iteration >= Max(seg(a, a.segment_index).repeat, 1)
             THEN [a EXCEPT !.segment_iteration = 0]
             ELSE a
    IN apply_current_segment(b)

normalized_segment_index(s, index) ==
    IF Len(s.segments) = 0 THEN 0 ELSE Min(index, Len(s.segments) - 1)

cycle_work_minutes(s, index) ==
    IF has_segments(s) /\ Len(s.segments) > 0
    THEN Max(seg(s, normalized_segment_index(s, index)).work_minutes, 1)
    ELSE Max(s.base_work_duration, 1)

cycle_break_minutes(s, index) ==
    IF has_segments(s) /\ Len(s.segments) > 0
    THEN Max(seg(s, normalized_segment_index(s, index)).break_minutes, 1)
    ELSE Max(s.base_break_duration, 1)

\* variant: the predictor leaves a segment after one pass, whatever its repeat
next_cycle_position_ignoring_repeat(s, index, iteration) ==
    IF ~has_segments(s) \/ Len(s.segments) = 0 THEN <<0, 0>>
    ELSE <<(normalized_segment_index(s, index) + 1) % Len(s.segments), 0>>

next_cycle_position(s, index, iteration) ==
    IF ~has_segments(s) \/ Len(s.segments) = 0 THEN <<0, 0>>
    ELSE LET idx == normalized_segment_index(s, index)
             repeat == Max(seg(s, idx).repeat, 1)
         IN IF iteration + 1 < repeat THEN <<idx, iteration + 1>>
            ELSE <<(idx + 1) % Len(s.segments), 0>>

\* the end of the phase in progress as the predictor takes it: the deadline,
\* or now + remaining_seconds.max(1) when there is none
predicted_phase_end(s, t) ==
    IF IsSome(s.phase_end_time) THEN Unwrap(s.phase_end_time)
    ELSE t + seconds(Max(s.remaining_seconds, 1))

\* the predictor's while loop over the ring of segments
RECURSIVE walk_segments(_, _, _, _, _)
walk_segments(s, candidate, idx, iteration, allow_break_from) ==
    IF candidate < allow_break_from
    THEN LET break_len == cycle_break_minutes(s, idx) * SecondsPerMinute
             next_position == next_cycle_position(s, idx, iteration)
             work_len == cycle_work_minutes(s, next_position[1]) * SecondsPerMinute
         IN walk_segments(s, candidate + seconds(break_len + work_len),
                          next_position[1], next_position[2], allow_break_from)
    ELSE candidate

\* compute_next_break_time_from_state; t is Utc::now()
compute_next_break_time_from_state(s, t) ==
    IF s.phase = "Idle" THEN None
    ELSE LET allow_break_from ==
                 IF IsSome(s.suppress_breaks_until)
                        /\ Unwrap(s.suppress_breaks_until) > t
                 THEN Unwrap(s.suppress_breaks_until) ELSE t
         IN IF ~has_segments(s)
            THEN LET base_work_seconds ==
                         Max(s.base_work_duration, 1) * SecondsPerMinute
                     candidate ==
                         IF s.phase = "Work" THEN predicted_phase_end(s, t)
                         ELSE predicted_phase_end(s, t) + seconds(base_work_seconds)
                     diff_seconds == num_seconds(allow_break_from - candidate)
                     cycles ==
                         (diff_seconds \div base_work_seconds)
                             + (IF diff_seconds % base_work_seconds # 0
                                THEN 1 ELSE 0)
                 IN IF candidate < allow_break_from
                    THEN Some(candidate + seconds(cycles * base_work_seconds))
                    ELSE Some(candidate)
            ELSE IF s.phase = "Work"
            THEN Some(walk_segments(s, predicted_phase_end(s, t), s.segment_index,
                                    s.segment_iteration, allow_break_from))
            ELSE LET next_position ==
                         next_cycle_position(s, s.segment_index, s.segment_iteration)
                     work_seconds ==
                         cycle_work_minutes(s, next_position[1]) * SecondsPerMinute
                 IN Some(walk_segments(s,
                             predicted_phase_end(s, t) + seconds(work_seconds),
                             next_position[1], next_position[2], allow_break_from))

\* variant: the predicted break is reported in flow mode as well
get_info_ignoring_flow_mode(s, t) ==
    [phase |-> s.phase,
     state |-> s.state,
     remaining_seconds |-> s.remaining_seconds,
     total_seconds |-> s.total_seconds,
     next_transition_time |-> s.phase_end_time,
     next_break_time |-> compute_next_break_time_from_state(s, t)]

\* get_info: the TimerInfo it returns; t is Utc::now()
get_info(s, t) ==
    [phase |-> s.phase,
     state |-> s.state,
     remaining_seconds |-> s.remaining_seconds,
     total_seconds |-> s.total_seconds,
     next_transition_time |-> s.phase_end_time,
     next_break_time |->
         IF s.flow_mode THEN None ELSE compute_next_break_time_from_state(s, t)]

suppress_breaks_for_hours(s, t, h) ==
    [s EXCEPT !.suppress_breaks_until = Some(t + hours(Max(h, 1)))]


update_flow_mode(s, enabled) == [s EXCEPT !.flow_mode = enabled]

\* ------------------------------------------------------------------- state

VARIABLES
    state,      \* the TimerServiceState behind TimerService.state (the mutex)
    now,        \* the wall clock, Utc::now(), in clock units
    next_uuid,  \* the next value Uuid::new_v4() returns
    ticker,     \* the ticker task: its position in tick() and tick's locals
    caller,     \* the calling thread: its position in a command and its locals
    emitted,    \* the "show-break-reminder" events the last step emitted
    returned,   \* the value the operation that completed in the last step returned
    persisted,  \* per session id, the save_or_update_session calls issued so far
    in_flight,  \* the spawned save_or_update_session calls that have not run yet
    stored,     \* per session id, the record DatabaseService.sessions holds
    commands,   \* the number of commands the caller has issued so far
    completed,  \* the command whose call returned in the last step, or "none"
    pause_cause, \* the operation that paused the engine, while it is Paused
    forecast,   \* the TimerInfo of the last get_info() and whether the ticker
                \* was between two ticks then, while no command has been
                \* issued and no Break entered since
    scope       \* the inputs of the run: sampled instants, settings, command budget

vars ==
    <<state, now, next_uuid, ticker, caller, emitted, returned, persisted,
      in_flight, stored, commands, completed, pause_cause, forecast, scope>>

SessionIds == 0..(MaxSessions - 1)

TickerWait ==
    [pc |-> "wait", next_phase |-> "Idle", session |-> None, flow_mode |-> FALSE,
     segmented_active |-> FALSE, suppress_breaks_active |-> FALSE]

CallerIdle ==
    [pc |-> "idle", op |-> "none", previous_phase |-> "Idle", session |-> None,
     segmented_active |-> FALSE]

NoCalls == [placeholder |-> 0, finished |-> 0, skipped |-> 0]

\* one more save_or_update_session call of the given kind for the session
Saved(p, session, kind) ==
    IF session.id \in DOMAIN p
    THEN [p EXCEPT ![session.id][kind] = @ + 1]
    ELSE p

SaveKinds == {"placeholder", "finished", "skipped"}

\* the save_or_update_session calls a step issues: those p2 counts and p does not
Issued(p, p2) ==
    {w \in [id : SessionIds, kind : SaveKinds] : p2[w.id][w.kind] > p[w.id][w.kind]}

\* whether the caller awaits the save: skip_phase and the tray lock the
\* database and save the skipped session themselves; persist_session_start
\* and persist_session_finish spawn a task that saves
Awaited(cl, w) == cl.op = "skip" /\ w.kind = "skipped"

\* the value tick() returns when it is Some(session)
tick_returns(session) ==
    IF IsSome(session) THEN Some([op |-> "tick", session |-> Unwrap(session)])
    ELSE None

\* skip()'s should_show_reminder: true when the phase it skipped was Work
\* variant: the reminder is asked for whatever phase was skipped
skip_shows_reminder_always(previous_phase) == TRUE
skip_shows_reminder(previous_phase) == previous_phase = "Work"

\* the value skip() returns when it is Some((session, should_show_reminder));
\* the variant asks for the reminder after every skip
skip_returns_always_reminder(session, should_show_reminder) ==
    Some([op |-> "skip", session |-> session, should_show_reminder |-> TRUE])
skip_returns(session, should_show_reminder) ==
    Some([op |-> "skip", session |-> session,
          should_show_reminder |-> should_show_reminder])

\* a step of the program: everything but the clock and the inputs
Do(s2, tk2, cl2, uuid2, em, ret, p2, c2, done) ==
    /\ state' = s2
    /\ completed' = done
    /\ pause_cause' = IF s2.state # "Paused" THEN "none"
                      ELSE IF state.state = "Paused" THEN pause_cause
                      ELSE IF caller.pc = "pause" THEN caller.op
                      ELSE "pause"
    /\ forecast' = IF c2 # commands THEN None
                   ELSE IF s2.phase = "Break" /\ state.phase # "Break" THEN None
                   ELSE forecast
    /\ ticker' = tk2
    /\ caller' = cl2
    /\ next_uuid' = uuid2
    /\ emitted' = em
    /\ returned' = ret
    /\ persisted' = p2
    /\ IF p2 = persisted
       THEN in_flight' = in_flight /\ stored' = stored
       ELSE LET calls == Issued(persisted, p2)
            IN /\ in_flight' = in_flight \cup {w \in calls : ~Awaited(caller, w)}
               /\ stored' = [i \in SessionIds |->
                                 IF [id |-> i, kind |-> "skipped"] \in calls
                                        /\ caller.op = "skip"
                                 THEN "skipped" ELSE stored[i]]
    /\ commands' = c2
    /\ now' = now
    /\ scope' = scope

\* a step of the ticker task
TickerDo(s2, tk2, uuid2, em, ret, p2) ==
    Do(s2, tk2, caller, uuid2, em, ret, p2, commands, "none")

\* a later step of a command the caller has begun
CallerDo(s2, cl2, uuid2, em, ret, p2) ==
    Do(s2, ticker, cl2, uuid2, em, ret, p2, commands,
       IF cl2.pc # "idle" THEN "none"
       ELSE IF caller.pc = "persist" /\ caller.op = "none" THEN "start"
       ELSE caller.op)

\* the first step of a command: its first critical section
Command(s2, cl2, uuid2) ==
    Do(s2, ticker, cl2, uuid2, <<>>, None, persisted, commands + 1, "none")

\* a command made of one critical section: its call returns in the same step
Atomic(op, s2) ==
    Do(s2, ticker, caller, next_uuid, <<>>, None, persisted, commands + 1, op)

\* the caller is between commands and may issue one
Idle == caller.pc = "idle" /\ commands < scope.budget

\* the uuid counter after a critical section that drew one iff the state held none
AfterDraw(s) == IF IsSome(s.current_session_id) THEN next_uuid ELSE next_uuid + 1
CanDraw(s) == IsSome(s.current_session_id) \/ next_uuid < MaxSessions

\* the state after construction, for a run with the given inputs
InitWith(sc) ==
    /\ scope = sc
    /\ \E settings \in sc.settings, flow_mode \in BOOLEAN :
           state = new(settings, flow_mode)
    /\ now = 0
    /\ next_uuid = 0
    /\ ticker = TickerWait
    /\ caller = CallerIdle
    /\ emitted = <<>>
    /\ returned = None
    /\ persisted = [i \in SessionIds |-> NoCalls]
    /\ in_flight = {}
    /\ stored = [i \in SessionIds |-> "none"]
    /\ commands = 0
    /\ completed = "none"
    /\ pause_cause = "none"
    /\ forecast = None

\* ------------------------------------------------------------------- clock

\* wall-clock time passes to a later sampled instant
Advance ==
    /\ \E t \in scope.instants : t > now /\ now' = t
    /\ emitted' = <<>>
    /\ returned' = None
    /\ completed' = "none"
    /\ UNCHANGED <<state, next_uuid, ticker, caller, persisted, in_flight,
                   stored, commands, pause_cause, forecast, scope>>

\* start_ticker's interval with no tick missed: once the tick due now has
\* run, wall-clock time passes to the next instant of interest, which is the
\* next sampled instant or the deadline of the phase in progress, whichever
\* comes first (the ticks in between only refresh remaining_seconds)
SecondPasses ==
    /\ ticker.pc = "wait"
    /\ ~(tick_runs(state) /\ tick_finished(state, now))
    /\ LET due == IF tick_runs(state) /\ IsSome(state.phase_end_time)
                  THEN {Unwrap(state.phase_end_time)} ELSE {}
           later == {t \in scope.instants \cup due :
                        t > now /\ \E h \in scope.instants : t <= h}
       IN \E t \in later :
              /\ \A u \in later : t <= u
              /\ now' = t
    /\ emitted' = <<>>
    /\ returned' = None
    /\ completed' = "none"
    /\ UNCHANGED <<state, next_uuid, ticker, caller, persisted, in_flight,
                   stored, commands, pause_cause, forecast, scope>>

\* ------------------------------------------------------------ spawned saves

\* a task spawned by persist_session_start or persist_session_finish runs:
\* save_or_update_session replaces the record stored under the session's id
SaveLands ==
    /\ \E w \in in_flight :
           /\ in_flight' = in_flight \ {w}
           /\ stored' = [stored EXCEPT ![w.id] = w.kind]
    /\ emitted' = <<>>
    /\ returned' = None
    /\ completed' = "none"
    /\ UNCHANGED <<state, now, next_uuid, ticker, caller, persisted, commands,
                   pause_cause, forecast, scope>>

\* ------------------------------------------------------------------ ticker

\* whether tick's chaining calls advance_segment_if_needed and start_work
\* variant: only suppression bypasses the break, flow mode does not
chain_to_work_ignoring_flow(tk) ==
    tk.next_phase = "Break"
        \/ (tk.next_phase = "Work" /\ tk.suppress_breaks_active)

chain_to_work(tk) ==
    tk.next_phase = "Break"
        \/ (tk.next_phase = "Work" /\ (tk.suppress_breaks_active \/ tk.flow_mode))

\* tick's locals once the critical section found the deadline reached
tick_locals(s, t, session) ==
    [pc |-> "chain",
     next_phase |-> s.phase,
     session |-> Some(session),
     flow_mode |-> s.flow_mode,
     segmented_active |-> has_segments(s),
     suppress_breaks_active |-> suppress_breaks_active(s, t)]

\* tick(): the critical section and the lock-free calls that follow it
\* (emit_timer_update, emit_timer_finished, persist_session_finish), up to the
\* point where the next phase is chosen
Tick ==
    /\ ticker.pc = "wait"
    /\ IF ~tick_runs(state)
       THEN TickerDo(state, ticker, next_uuid, <<>>, None, persisted)
       ELSE IF ~tick_finished(state, now)
       THEN TickerDo(tick(state, now), ticker, next_uuid, <<>>, None, persisted)
       ELSE LET session == create_session_record(state, FALSE, now, next_uuid)
            IN /\ CanDraw(state)
               /\ IF state.auto_cycle /\ state.phase # "Idle"
                  THEN TickerDo(tick(state, now), tick_locals(state, now, session),
                                AfterDraw(state), <<>>, None,
                                Saved(persisted, session, "finished"))
                  ELSE TickerDo(tick(state, now), ticker, AfterDraw(state), <<>>,
                                tick_returns(Some(session)),
                                Saved(persisted, session, "finished"))

\* tick(): advance_segment_if_needed(segmented_active), its own critical section
TickAdvance ==
    /\ ticker.pc = "chain"
    /\ chain_to_work(ticker)
    /\ ticker.segmented_active
    /\ TickerDo(advance_segment_cycle(state), [ticker EXCEPT !.pc = "start"],
                next_uuid, <<>>, None, persisted)

\* tick(): the critical section of the chained start_work / start_break
TickStart ==
    /\ IF chain_to_work(ticker) /\ ticker.segmented_active
       THEN ticker.pc = "start"
       ELSE ticker.pc = "chain"
    /\ next_uuid < MaxSessions
    /\ IF chain_to_work(ticker)
       THEN TickerDo(start_work(state, now, next_uuid),
                     [ticker EXCEPT !.pc = "persist"], next_uuid + 1, <<>>, None,
                     persisted)
       ELSE TickerDo(start_break(state, now, next_uuid),
                     [ticker EXCEPT !.pc = "persist"], next_uuid + 1, <<>>, None,
                     persisted)

\* tick(): persist_session_start reads the state again; then the reminder is
\* shown (break branch) and tick returns the finished session
TickPersist ==
    /\ ticker.pc = "persist"
    /\ CanDraw(state)
    /\ TickerDo(state, TickerWait, AfterDraw(state),
                IF chain_to_work(ticker) THEN <<>> ELSE <<"show-break-reminder">>,
                tick_returns(ticker.session),
                Saved(persisted, placeholder_session(state, now, next_uuid),
                      "placeholder"))

\* ------------------------------------------------------------------ caller

\* commands::start_work / the start at launch: start_work's critical section
CmdStartWork ==
    /\ Idle
    /\ next_uuid < MaxSessions
    /\ Command(start_work(state, now, next_uuid),
               [CallerIdle EXCEPT !.pc = "persist"], next_uuid + 1)

\* commands::start_break: start_break's critical section
CmdStartBreak ==
    /\ Idle
    /\ next_uuid < MaxSessions
    /\ Command(start_break(state, now, next_uuid),
               [CallerIdle EXCEPT !.pc = "persist"], next_uuid + 1)

\* persist_session_start of the caller's start_work / start_break: it reads the
\* state again.  Then start_* returns; a skip() returns Some((session,
\* should_show_reminder)) and its caller saves the session (skip_phase, the
\* tray, update_flow_mode) and shows the reminder (skip_phase, the tray)
CallerPersist ==
    /\ caller.pc = "persist"
    /\ CanDraw(state)
    /\ LET p1 == Saved(persisted, placeholder_session(state, now, next_uuid),
                       "placeholder")
       IN IF caller.op = "none"
          THEN CallerDo(state, CallerIdle, AfterDraw(state), <<>>, None, p1)
          ELSE CallerDo(state, CallerIdle, AfterDraw(state),
                        IF caller.op = "skip"
                               /\ skip_shows_reminder(caller.previous_phase)
                        THEN <<"show-break-reminder">> ELSE <<>>,
                        skip_returns(Unwrap(caller.session),
                                     skip_shows_reminder(caller.previous_phase)),
                        Saved(p1, Unwrap(caller.session), "skipped"))

CmdPause ==
    /\ Idle
    /\ Atomic("pause", pause(state, now))

CmdResume ==
    /\ Idle
    /\ Atomic("resume", resume(state, now))

\* commands::extend_phase calls extend(5); extend(0) exercises minutes.max(1)
CmdExtend ==
    /\ Idle
    /\ \E minutes \in {0, ExtendMinutes} : Atomic("extend", extend(state, minutes))

CmdStop ==
    /\ Idle
    /\ Atomic("stop", stop(state))

\* variant: skip() without the early return for Idle
skip_read_without_idle_check(op, begin) ==
    LET locals ==
            [pc |-> "skip_stop", op |-> op, previous_phase |-> state.phase,
             session |-> Some(create_session_record(state, TRUE, now, next_uuid)),
             segmented_active |-> has_segments(state)]
    IN /\ CanDraw(state)
       /\ IF begin THEN Command(state, locals, AfterDraw(state))
          ELSE CallerDo(state, locals, AfterDraw(state), <<>>, None, persisted)

\* skip(): the first critical section (reads the phase, builds the record)
skip_read(op, begin) ==
    IF state.phase = "Idle"
    THEN IF begin THEN Atomic(op, state)
         ELSE CallerDo(state, CallerIdle, next_uuid, <<>>, None, persisted)
    ELSE LET locals ==
                 [pc |-> "skip_stop", op |-> op, previous_phase |-> state.phase,
                  session |->
                      Some(create_session_record(state, TRUE, now, next_uuid)),
                  segmented_active |-> has_segments(state)]
         IN /\ CanDraw(state)
            /\ IF begin THEN Command(state, locals, AfterDraw(state))
               ELSE CallerDo(state, locals, AfterDraw(state), <<>>, None, persisted)

\* commands::skip_phase and the tray's "skip"
CmdSkip ==
    /\ Idle
    /\ skip_read("skip", TRUE)

\* skip(): self.stop()
SkipStop ==
    /\ caller.pc = "skip_stop"
    /\ CallerDo(stop(state),
                [caller EXCEPT !.pc =
                     IF caller.previous_phase = "Break" /\ caller.segmented_active
                     THEN "skip_advance" ELSE "skip_start"],
                next_uuid, <<>>, None, persisted)

\* skip(): advance_segment_if_needed(segmented_active) after a skipped Break
SkipAdvance ==
    /\ caller.pc = "skip_advance"
    /\ CallerDo(advance_segment_cycle(state), [caller EXCEPT !.pc = "skip_start"],
                next_uuid, <<>>, None, persisted)

\* skip(): start_break after Work, start_work after Break
SkipStart ==
    /\ caller.pc = "skip_start"
    /\ next_uuid < MaxSessions
    /\ IF caller.previous_phase = "Work"
       THEN CallerDo(start_break(state, now, next_uuid),
                     [caller EXCEPT !.pc = "persist"], next_uuid + 1, <<>>, None,
                     persisted)
       ELSE CallerDo(start_work(state, now, next_uuid),
                     [caller EXCEPT !.pc = "persist"], next_uuid + 1, <<>>, None,
                     persisted)

\* commands::save_settings / import_config: update_timer_configuration
CmdConfigure ==
    /\ Idle
    /\ \E settings \in scope.settings :
          Atomic("update_timer_configuration",
                 update_timer_configuration(state, settings))

\* variant: turning flow mode on goes on to skip() whatever the phase
CmdFlowMode_skipping_any_phase ==
    /\ Idle
    /\ \E enabled \in BOOLEAN :
          IF state.flow_mode = enabled
          THEN Atomic("update_flow_mode", state)
          ELSE IF enabled
          THEN Command(update_flow_mode(state, enabled),
                       [CallerIdle EXCEPT !.pc = "skip_read",
                                          !.op = "update_flow_mode"],
                       next_uuid)
          ELSE Atomic("update_flow_mode", update_flow_mode(state, enabled))

\* update_flow_mode: its critical section; turning flow mode on during a Break
\* goes on to skip()
CmdFlowMode ==
    /\ Idle
    /\ \E enabled \in BOOLEAN :
          IF state.flow_mode = enabled
          THEN Atomic("update_flow_mode", state)
          ELSE IF enabled /\ state.phase = "Break"
          THEN Command(update_flow_mode(state, enabled),
                       [CallerIdle EXCEPT !.pc = "skip_read",
                                          !.op = "update_flow_mode"],
                       next_uuid)
          ELSE Atomic("update_flow_mode", update_flow_mode(state, enabled))

\* update_flow_mode: the first critical section of the skip() it calls
FlowSkip ==
    /\ caller.pc = "skip_read"
    /\ skip_read("update_flow_mode", FALSE)

\* commands::get_timer_info: get_info(), one critical section that changes
\* nothing; the caller keeps the TimerInfo it returns
GetInfo ==
    /\ Idle
    /\ state' = state
    /\ forecast' = Some([info |-> get_info(state, now),
                         between_ticks |-> ticker.pc = "wait"])
    /\ commands' = commands + 1
    /\ completed' = "get_info"
    /\ emitted' = <<>>
    /\ returned' = None
    /\ UNCHANGED <<now, next_uuid, ticker, caller, persisted, in_flight, stored,
                   pause_cause, scope>>

\* the tray's "no break for n hours"
CmdSuppress ==
    /\ Idle
    /\ \E h \in SuppressHours : 
          Atomic("suppress_breaks_for_hours",
                 suppress_breaks_for_hours(state, now, h))

\* variant: display-on resumes whatever paused the engine
CmdDisplay_resuming_any_pause ==
    /\ Idle
    /\ \E display_on \in BOOLEAN :
          IF display_on
          THEN IF state.state = "Paused"
               THEN Command([state EXCEPT !.paused_due_to_display_off = FALSE],
                            [CallerIdle EXCEPT !.pc = "resume",
                                               !.op = "display_on"],
                            next_uuid)
               ELSE Atomic("display_on",
                           [state EXCEPT !.paused_due_to_display_off = FALSE])
          ELSE IF state.state = "Running"
               THEN Command([state EXCEPT !.paused_due_to_display_off = TRUE],
                            [CallerIdle EXCEPT !.pc = "pause",
                                               !.op = "display_off"],
                            next_uuid)
               ELSE Atomic("display_off", state)

\* handle_display_power_state: its own critical section (the flag)
CmdDisplay ==
    /\ Idle
    /\ \E display_on \in BOOLEAN :
          IF display_on
          THEN IF state.state = "Paused" /\ state.paused_due_to_display_off
               THEN Command([state EXCEPT !.paused_due_to_display_off = FALSE],
                            [CallerIdle EXCEPT !.pc = "resume",
                                               !.op = "display_on"],
                            next_uuid)
               ELSE Atomic("display_on",
                           [state EXCEPT !.paused_due_to_display_off = FALSE])
          ELSE IF state.state = "Running"
               THEN Command([state EXCEPT !.paused_due_to_display_off = TRUE],
                            [CallerIdle EXCEPT !.pc = "pause",
                                               !.op = "display_off"],
                            next_uuid)
               ELSE Atomic("display_off", state)

\* variant: the suspend flag is set whatever the run state
CmdSuspend_flagging_any_state ==
    /\ Idle
    /\ IF state.state = "Running"
       THEN Command([state EXCEPT !.paused_due_to_system_suspend = TRUE],
                    [CallerIdle EXCEPT !.pc = "pause", !.op = "system_suspend"],
                    next_uuid)
       ELSE Atomic("system_suspend",
                   [state EXCEPT !.paused_due_to_system_suspend = TRUE])

\* handle_system_suspend: its own critical section (the flag)
CmdSuspend ==
    /\ Idle
    /\ IF state.state = "Running"
       THEN Command([state EXCEPT !.paused_due_to_system_suspend = TRUE],
                    [CallerIdle EXCEPT !.pc = "pause", !.op = "system_suspend"],
                    next_uuid)
       ELSE Atomic("system_suspend", state)

\* handle_system_resume: its own critical section (the flag)
CmdSystemResume ==
    /\ Idle
    /\ IF state.state = "Paused" /\ state.paused_due_to_system_suspend
       THEN Command([state EXCEPT !.paused_due_to_system_suspend = FALSE],
                    [CallerIdle EXCEPT !.pc = "resume", !.op = "system_resume"],
                    next_uuid)
       ELSE Atomic("system_resume",
                   [state EXCEPT !.paused_due_to_system_suspend = FALSE])

\* the pause() a power handler calls after releasing the lock
PowerPause ==
    /\ caller.pc = "pause"
    /\ CallerDo(pause(state, now), CallerIdle, next_uuid, <<>>, None, persisted)

\* the resume() a power handler calls after releasing the lock
PowerResume ==
    /\ caller.pc = "resume"
    /\ CallerDo(resume(state, now), CallerIdle, next_uuid, <<>>, None, persisted)

\* ------------------------------------------------- failed notifications

\* the Err an operation returns when app.emit fails (AppError::TauriError)
emit_error(op) == Some([op |-> op, error |-> "TauriError"])

\* tick(): the critical section, then emit_timer_update (or emit_timer_finished)
\* fails and `?` returns the error: nothing is persisted and no phase chained
TickEmitFails ==
    /\ ticker.pc = "wait"
    /\ tick_runs(state)
    /\ CanDraw(state)
    /\ TickerDo(tick(state, now), ticker,
                IF tick_finished(state, now) THEN AfterDraw(state) ELSE next_uuid,
                <<>>, emit_error("tick"), persisted)

\* tick(): the chained start_work / start_break commits its critical section,
\* then its emit_timer_update or emit_phase_change fails: persist_session_start
\* and show_break_reminder are not reached and tick returns the error
TickStartEmitFails ==
    /\ IF chain_to_work(ticker) /\ ticker.segmented_active
       THEN ticker.pc = "start"
       ELSE ticker.pc = "chain"
    /\ next_uuid < MaxSessions
    /\ IF chain_to_work(ticker)
       THEN TickerDo(start_work(state, now, next_uuid), TickerWait, next_uuid + 1,
                     <<>>, emit_error("tick"), persisted)
       ELSE TickerDo(start_break(state, now, next_uuid), TickerWait, next_uuid + 1,
                     <<>>, emit_error("tick"), persisted)

\* skip(): self.stop()? commits its critical section, then its
\* emit_timer_update fails and skip returns the error
SkipStopEmitFails ==
    /\ caller.pc = "skip_stop"
    /\ CallerDo(stop(state), CallerIdle, next_uuid, <<>>, emit_error(caller.op),
                persisted)

\* skip(): the start_break / start_work it calls commits its critical section,
\* then an emit fails: skip returns the error, its caller saves no session
SkipStartEmitFails ==
    /\ caller.pc = "skip_start"
    /\ next_uuid < MaxSessions
    /\ IF caller.previous_phase = "Work"
       THEN CallerDo(start_break(state, now, next_uuid), CallerIdle, next_uuid + 1,
                     <<>>, emit_error(caller.op), persisted)
       ELSE CallerDo(start_work(state, now, next_uuid), CallerIdle, next_uuid + 1,
                     <<>>, emit_error(caller.op), persisted)

\* ----------------------------------------------------------- specification

TickerStep == Tick \/ TickAdvance \/ TickStart \/ TickPersist

CallerStep ==
    \/ CmdStartWork \/ CmdStartBreak \/ CallerPersist
    \/ CmdPause \/ CmdResume \/ CmdExtend \/ CmdStop
    \/ CmdSkip \/ SkipStop \/ SkipAdvance \/ SkipStart
    \/ CmdConfigure \/ CmdFlowMode \/ FlowSkip \/ CmdSuppress
    \/ CmdDisplay \/ CmdSuspend \/ CmdSystemResume \/ PowerPause \/ PowerResume

Next == Advance \/ TickerStep \/ CallerStep

\* every command, a few of them per run
SpecScope ==
    [instants |-> {0, 1, seconds(1500), seconds(3600)},
     settings |-> {FlatSettings, SegmentedSettings},
     budget |-> MaxCommands]

Init == InitWith(SpecScope)

Spec == Init /\ [][Next]_vars

\* the ticker and the timer commands, without the power signals
TimerStep ==
    \/ CmdStartWork \/ CmdStartBreak \/ CallerPersist
    \/ CmdPause \/ CmdResume \/ CmdExtend \/ CmdStop
    \/ CmdSkip \/ SkipStop \/ SkipAdvance \/ SkipStart
    \/ CmdConfigure \/ CmdFlowMode \/ FlowSkip \/ CmdSuppress

TimerNext == Advance \/ TickerStep \/ TimerStep

TimerScope ==
    [instants |-> {0, 1, seconds(1500), seconds(3600)},
     settings |-> {FlatSettings, SegmentedSettings},
     budget |-> MaxTimerCommands]

TimerInit == InitWith(TimerScope)

TimerSpec == TimerInit /\ [][TimerNext]_vars

\* the power signals, pause/resume and start_work, more of them per run, with
\* the ticker running
PowerStep ==
    \/ CmdStartWork \/ CallerPersist \/ CmdPause \/ CmdResume
    \/ CmdDisplay \/ CmdSuspend \/ CmdSystemResume \/ PowerPause \/ PowerResume

PowerNext == Advance \/ TickerStep \/ PowerStep

PowerScope ==
    [instants |-> {0, 1, seconds(3000), seconds(3600)},
     settings |-> {SegmentedSettings},
     budget |-> MaxPowerCommands]

PowerInit == InitWith(PowerScope)

PowerSpec == PowerInit /\ [][PowerNext]_vars

\* the segment cursor alone: advance_segment_if_needed(true) applied again and
\* again to an engine constructed with a plan drawn from Plans
CycleAdvance ==
    /\ commands < scope.budget
    /\ Do(advance_segment_cycle(state), ticker, caller, next_uuid, <<>>, None,
          persisted, commands + 1, "none")

CycleNext == CycleAdvance

CycleScope ==
    [instants |-> {0}, settings |-> PlanSettings, budget |-> MaxAdvances]

CycleInit == InitWith(CycleScope)

CycleSpec == CycleInit /\ [][CycleNext]_vars

\* the segment cursor under its two writers: advance_segment_if_needed(true)
\* and update_timer_configuration, in any order, on an idle engine
ConfigNext == CycleAdvance \/ CmdConfigure

ConfigScope ==
    [instants |-> {0}, settings |-> ConfigSettings, budget |-> MaxConfigCommands]

ConfigInit == InitWith(ConfigScope)

ConfigSpec == ConfigInit /\ [][ConfigNext]_vars

\* a run driven by the ticker alone after one start_work, over several cycles
\* of the plan; the clock is sampled every five minutes, where the deadlines
\* of the plan's phases fall
RunStep == CmdStartWork \/ CallerPersist

RunNext == SecondPasses \/ TickerStep \/ RunStep

RunScope ==
    [instants |-> {seconds(5 * SecondsPerMinute * k) : k \in 0..MaxRunSteps},
     settings |-> {SegmentedSettings},
     budget |-> 1]

RunInit == InitWith(RunScope)

RunSpec == RunInit /\ [][RunNext]_vars

\* a shorter run of the same kind with the scheduling start_ticker gives: the
\* interval fires every second for ever, so a step of the ticker that stays
\* possible is taken, and wall-clock time goes on
LiveScope ==
    [instants |-> {seconds(5 * SecondsPerMinute * k) : k \in 0..MaxLiveSteps},
     settings |-> {FlatSettings, SegmentedSettings},
     budget |-> 1]

LiveInit == InitWith(LiveScope)

LiveSpec ==
    LiveInit /\ [][RunNext]_vars /\ WF_vars(SecondPasses) /\ WF_vars(TickerStep)

\* the predictor against the engine: start_work or start_break, a suppression
\* window and get_info() issued at twenty-minute instants or at a deadline,
\* the ticker running with no tick missed
PredictStep ==
    \/ CmdStartWork \/ CmdStartBreak \/ CallerPersist \/ CmdSuppress \/ GetInfo

PredictNext == SecondPasses \/ TickerStep \/ PredictStep

PredictScope ==
    [instants |-> {seconds(20 * SecondsPerMinute * k) : k \in 0..MaxPredictSteps},
     settings |-> {FlatSettings, SegmentedSettings},
     budget |-> MaxPredictCommands]

PredictInit == InitWith(PredictScope)

PredictSpec == PredictInit /\ [][PredictNext]_vars

\* get_info() read between the commands that shape what it reports: a phase
\* started, paused, a suppression window set and left to expire
InfoStep ==
    \/ CmdStartWork \/ CallerPersist \/ CmdPause \/ CmdSuppress \/ GetInfo

InfoNext == Advance \/ TickerStep \/ InfoStep

InfoScope ==
    [instants |-> {0, 1, seconds(1500), seconds(3600)},
     settings |-> {FlatSettings, SegmentedSettings},
     budget |-> MaxInfoCommands]

InfoInit == InitWith(InfoScope)

InfoSpec == InfoInit /\ [][InfoNext]_vars

\* the ticker and the commands that end a phase or decide what follows it
\* (start, stop, skip, flow mode, suppression), on the segmented plan, the
\* clock sampled at the deadlines of its first Work and Break phases
SignalStep ==
    \/ CmdStartWork \/ CmdStartBreak \/ CallerPersist \/ CmdStop
    \/ CmdSkip \/ SkipStop \/ SkipAdvance \/ SkipStart
    \/ CmdFlowMode \/ FlowSkip \/ CmdSuppress

SignalNext == Advance \/ TickerStep \/ SignalStep

SignalScope ==
    [instants |-> {0, seconds(3000), seconds(3600)},
     settings |-> {SegmentedSettings},
     budget |-> MaxSignalCommands]

SignalInit == InitWith(SignalScope)

SignalSpec == SignalInit /\ [][SignalNext]_vars

\* the same operations one at a time: a tick runs from its critical section to
\* its return while the caller is between commands, a command runs from its
\* first critical section to its return while the ticker is between ticks, and
\* the clock moves on between operations
SerialClock == caller.pc = "idle" /\ ticker.pc = "wait" /\ Advance

SerialTick == caller.pc = "idle" /\ TickerStep

SerialCommand == ticker.pc = "wait" /\ SignalStep

SerialNext == SerialClock \/ SerialTick \/ SerialCommand

SerialSpec == SignalInit /\ [][SerialNext]_vars

\* the ticker, start_work and skip with a notification collaborator that may
\* fail to deliver any event
FaultStep ==
    \/ CmdStartWork \/ CallerPersist
    \/ CmdSkip \/ SkipStop \/ SkipAdvance \/ SkipStart
    \/ SkipStopEmitFails \/ SkipStartEmitFails

FaultNext ==
    Advance \/ TickerStep \/ TickEmitFails \/ TickStartEmitFails \/ FaultStep

FaultScope ==
    [instants |-> {0, seconds(3000), seconds(3600)},
     settings |-> {SegmentedSettings},
     budget |-> MaxFaultCommands]

FaultInit == InitWith(FaultScope)

FaultSpec == FaultInit /\ [][FaultNext]_vars

\* the ticker, start_work and skip together with the database: every save a
\* spawned task makes reaches the stored record at some later step
StoreStep ==
    \/ CmdStartWork \/ CallerPersist
    \/ CmdSkip \/ SkipStop \/ SkipAdvance \/ SkipStart

StoreNext == Advance \/ TickerStep \/ SaveLands \/ StoreStep

StoreScope ==
    [instants |-> {0, seconds(3000), seconds(3600)},
     settings |-> {SegmentedSettings},
     budget |-> MaxStoreCommands]

StoreInit == InitWith(StoreScope)

StoreSpec == StoreInit /\ [][StoreNext]_vars

\* ------------------------------------------------------------------ claims

cursor(s) == <<s.segment_index, s.segment_iteration>>

\* the position one step further along the ring of segments (spec 4.1)
ring_next(s) ==
    IF ~(s.segmented_enabled /\ Len(s.segments) > 0) THEN <<0, 0>>
    ELSE LET idx == Min(s.segment_index, Len(s.segments) - 1)
         IN IF s.segment_iteration + 1 < s.segments[idx + 1].repeat
            THEN <<idx, s.segment_iteration + 1>>
            ELSE <<(idx + 1) % Len(s.segments), 0>>

\* the minutes configured for the cursor's position, or the flat base minutes
work_minutes_at(s) ==
    IF s.segmented_enabled /\ Len(s.segments) > 0
    THEN s.segments[Min(s.segment_index, Len(s.segments) - 1) + 1].work_minutes
    ELSE s.base_work_duration

break_minutes_at(s) ==
    IF s.segmented_enabled /\ Len(s.segments) > 0
    THEN s.segments[Min(s.segment_index, Len(s.segments) - 1) + 1].break_minutes
    ELSE s.base_break_duration

DeadlineReached ==
    IsSome(state.phase_end_time) /\ now >= Unwrap(state.phase_end_time)

SuppressionInFuture ==
    IsSome(state.suppress_breaks_until) /\ now < Unwrap(state.suppress_breaks_until)

\* a tick() whose critical section finds a Running phase at or past its deadline
TickCompletes == Tick /\ state.state = "Running" /\ DeadlineReached

\* a later step of the tick that completed a phase
TickChainStep == TickAdvance \/ TickStart \/ TickPersist

\* C1: a tick that finds a Running Work phase at or past its deadline, with
\* flow mode off and no suppression window in the future, produces a Work
\* session record that is not skipped and whose duration is the time since the
\* phase started, starts Break/Running with the deadline at its start plus the
\* break duration, raises the break reminder and returns the record.
C1_WorkCompletesIntoBreak ==
    [][ /\ (TickCompletes /\ state.phase = "Work" /\ ~state.flow_mode
                /\ ~SuppressionInFuture)
           => /\ ticker'.pc = "chain"
              /\ ticker'.next_phase = "Work"
              /\ ~ticker'.flow_mode /\ ~ticker'.suppress_breaks_active
              /\ state'.phase_end_time = None
              /\ LET r == Unwrap(ticker'.session)
                 IN /\ r.session_type = "Work"
                    /\ r.is_skipped = FALSE
                    /\ r.id = Unwrap(state.current_session_id)
                    /\ r.start_time = Unwrap(state.current_session_start)
                    /\ r.end_time = now
                    /\ r.duration
                         = (now - Unwrap(state.current_session_start)) \div SubSecond
                    /\ r.planned_duration = state.total_seconds
        /\ (TickStart /\ ticker.next_phase = "Work"
                /\ ~ticker.flow_mode /\ ~ticker.suppress_breaks_active)
           => /\ state'.phase = "Break"
              /\ state'.state = "Running"
              /\ state'.total_seconds = break_minutes_at(state) * SecondsPerMinute
              /\ state'.remaining_seconds = state'.total_seconds
              /\ state'.current_session_start = Some(now)
              /\ state'.phase_end_time
                   = Some(now + state'.total_seconds * SubSecond)
        /\ (TickPersist /\ ticker.next_phase = "Work"
                /\ ~ticker.flow_mode /\ ~ticker.suppress_breaks_active)
           => /\ emitted' = <<"show-break-reminder">>
              /\ returned' = Some([op |-> "tick", session |-> Unwrap(ticker.session)])
      ]_vars

\* the 25-minute Work phase ticked at its deadline: 1500 s, then a 5-minute Break
C1_Witness ==
    /\ emitted = <<"show-break-reminder">>
    /\ IsSome(returned)
    /\ Unwrap(returned).op = "tick"
    /\ Unwrap(returned).session.session_type = "Work"
    /\ Unwrap(returned).session.duration = 1500
    /\ ~Unwrap(returned).session.is_skipped
    /\ state.phase = "Break"
    /\ state.state = "Running"
    /\ state.phase_end_time = Some(now + 300 * SubSecond)

\* C2: a tick that completes a Work phase while suppress_breaks_until is in the
\* future chains into a new Work/Running phase, after one cursor advance when
\* segmentation is active; no step of that tick enters Break or raises the
\* break reminder.
C2_SuppressedWorkChainsToWork ==
    [][ /\ (TickCompletes /\ state.phase = "Work" /\ SuppressionInFuture)
           => /\ ticker'.pc = "chain"
              /\ ticker'.next_phase = "Work"
              /\ ticker'.suppress_breaks_active
              /\ ticker'.segmented_active = has_segments(state)
              /\ state'.suppress_breaks_until = state.suppress_breaks_until
        /\ (TickChainStep /\ ticker.next_phase = "Work"
                /\ ticker.suppress_breaks_active)
           => /\ emitted' = <<>>
              /\ state'.phase = "Break" => state.phase = "Break"
              /\ TickAdvance => cursor(state') = ring_next(state)
              /\ TickStart
                   => /\ ticker.segmented_active <=> ticker.pc = "start"
                      /\ state'.phase = "Work"
                      /\ state'.state = "Running"
                      /\ cursor(state') = cursor(state)
                      /\ state'.total_seconds
                           = work_minutes_at(state) * SecondsPerMinute
                      /\ state'.phase_end_time
                           = Some(now + state'.total_seconds * SubSecond)
      ]_vars

C2_Witness ==
    /\ ticker.pc = "persist"
    /\ ticker.next_phase = "Work"
    /\ ticker.suppress_breaks_active
    /\ ~ticker.flow_mode
    /\ ticker.segmented_active
    /\ cursor(state) = <<0, 1>>
    /\ state.phase = "Work"
    /\ state.state = "Running"
    /\ state.current_session_start = Some(now)
    /\ SuppressionInFuture

\* C3 as stated: while flow_mode is true no operation (tick completion, skip or
\* any other command) takes the phase from Work to Break.
C3_NoWorkToBreakInFlowMode ==
    [][ state.flow_mode
           => /\ ~(state.phase = "Work" /\ state'.phase = "Break")
              /\ ~(SkipStart /\ caller.previous_phase = "Work"
                       /\ state'.phase = "Break")
      ]_vars

\* C3 as amended: a tick that completes a Work phase and reads flow_mode = true
\* in its critical section chains into Work/Running and no step of that tick
\* enters Break or raises the break reminder.
C3_FlowModeTickChainsToWork ==
    [][ /\ (TickCompletes /\ state.phase = "Work" /\ state.flow_mode)
           => /\ ticker'.pc = "chain"
              /\ ticker'.next_phase = "Work"
              /\ ticker'.flow_mode
        /\ (TickChainStep /\ ticker.next_phase = "Work" /\ ticker.flow_mode)
           => /\ emitted' = <<>>
              /\ state'.phase = "Break" => state.phase = "Break"
              /\ TickStart => state'.phase = "Work" /\ state'.state = "Running"
      ]_vars

C3_Witness ==
    /\ ticker.pc = "persist"
    /\ ticker.next_phase = "Work"
    /\ ticker.flow_mode
    /\ ~ticker.suppress_breaks_active
    /\ state.flow_mode
    /\ state.phase = "Work"
    /\ state.state = "Running"
    /\ state.current_session_start = Some(now)

\* C4: a tick that finds a Running Break phase at or past its deadline advances
\* the cursor one step along the ring (when segmentation was active at the
\* completion) and then starts Work/Running with the work duration of the
\* cursor's position; it raises no break reminder.
C4_BreakCompletesIntoWork ==
    [][ /\ (TickCompletes /\ state.phase = "Break")
           => /\ ticker'.pc = "chain"
              /\ ticker'.next_phase = "Break"
              /\ ticker'.segmented_active = has_segments(state)
              /\ cursor(state') = cursor(state)
        /\ (TickChainStep /\ ticker.next_phase = "Break")
           => /\ emitted' = <<>>
              /\ TickAdvance => cursor(state') = ring_next(state)
              /\ TickStart
                   => /\ ticker.segmented_active <=> ticker.pc = "start"
                      /\ state'.phase = "Work"
                      /\ state'.state = "Running"
                      /\ cursor(state') = cursor(state)
                      /\ state'.total_seconds
                           = work_minutes_at(state') * SecondsPerMinute
                      /\ state'.remaining_seconds = state'.total_seconds
                      /\ state'.phase_end_time
                           = Some(now + state'.total_seconds * SubSecond)
              /\ TickPersist => cursor(state') = cursor(state)
      ]_vars

\* the first Break of the plan [{50,10,x2},{25,5,x1}] completed: the cursor
\* went from (0,0) to (0,1) and a 50-minute Work phase runs
C4_Witness ==
    /\ ticker.pc = "persist"
    /\ ticker.next_phase = "Break"
    /\ ticker.segmented_active
    /\ has_segments(state)
    /\ cursor(state) = <<0, 1>>
    /\ state.phase = "Work"
    /\ state.state = "Running"
    /\ state.total_seconds = 3000
    /\ Unwrap(ticker.session).session_type = "Break"

\* C5: whenever the state lock is free, phase_end_time is present if and only
\* if the run state is Running.
C5_DeadlineIffRunning ==
    IsSome(state.phase_end_time) <=> state.state = "Running"

\* C6: remaining_seconds is at least 0 and at most total_seconds.
C6_RemainingWithinTotal ==
    /\ 0 <= state.remaining_seconds
    /\ state.remaining_seconds <= state.total_seconds

\* an extended 25-minute phase a tick has counted down
C6_Witness ==
    /\ state.state = "Running"
    /\ state.total_seconds = 1500 + ExtendMinutes * SecondsPerMinute
    /\ 0 < state.remaining_seconds
    /\ state.remaining_seconds < state.total_seconds

\* C7: the run state is Stopped exactly when the phase is Idle.
C7_StoppedIffIdle ==
    state.state = "Stopped" <=> state.phase = "Idle"

\* stop() ran between a tick's completion of a phase and its chained start
C7_Witness ==
    /\ ticker.pc = "chain"
    /\ state.state = "Stopped"
    /\ state.phase = "Idle"
    /\ commands > 0

\* C8: a tick that runs while Running with now before the deadline changes only
\* remaining_seconds, which becomes the whole seconds from now to the deadline
\* (and clears a suppression deadline that has expired); it produces no session
\* record and starts no chain.
C8_TickBeforeDeadline ==
    [][ (Tick /\ state.state = "Running" /\ IsSome(state.phase_end_time)
              /\ now < Unwrap(state.phase_end_time))
           => /\ state'
                   = [state EXCEPT
                        !.remaining_seconds
                            = (Unwrap(state.phase_end_time) - now) \div SubSecond,
                        !.suppress_breaks_until
                            = IF SuppressionInFuture THEN @ ELSE None]
              /\ returned' = None
              /\ emitted' = <<>>
              /\ persisted' = persisted
              /\ ticker' = ticker
              /\ next_uuid' = next_uuid
      ]_vars

\* half a second into a 25-minute phase: 1499 whole seconds remain
C8_Witness ==
    /\ state.state = "Running"
    /\ state.total_seconds = 1500
    /\ state.current_session_start = Some(0)
    /\ state.phase_end_time = Some(1500 * SubSecond)
    /\ now = 1
    /\ state.remaining_seconds = 1499

\* C9: a tick that runs while the engine is Paused or Stopped changes nothing
\* in the engine state and returns no session.
C9_TickWhileNotRunning ==
    [][ (Tick /\ state.state # "Running")
           => /\ state' = state
              /\ returned' = None
              /\ emitted' = <<>>
              /\ persisted' = persisted
              /\ ticker' = ticker
              /\ next_uuid' = next_uuid
      ]_vars

\* Paused at the start of a phase, an hour ago: the whole phase still remains
C9_Witness ==
    /\ state.state = "Paused"
    /\ ticker.pc = "wait"
    /\ state.phase_end_time = None
    /\ state.remaining_seconds = state.total_seconds
    /\ state.remaining_seconds > 0
    /\ now >= Unwrap(state.current_session_start) + hours(1)

\* C10: the tick that finds the deadline of a Running phase reached completes
\* the phase once: the session had no finished record and gets exactly one, the
\* deadline is cleared, the chained start sets the new deadline from the time
\* of that step, a tick saves a record only when the deadline is reached, and
\* no session ever has more than one finished record.
C10_CompletesExactlyOnce ==
    [][ /\ TickCompletes
           => /\ persisted[Unwrap(state.current_session_id)].finished = 0
              /\ persisted'[Unwrap(state.current_session_id)].finished = 1
              /\ \A id \in SessionIds \ {Unwrap(state.current_session_id)} :
                     persisted'[id] = persisted[id]
              /\ state'.phase_end_time = None
        /\ (Tick /\ ~(state.state = "Running" /\ DeadlineReached))
           => persisted' = persisted /\ ticker' = ticker
        /\ TickStart
           => /\ state'.phase_end_time
                   = Some(now + state'.total_seconds * SubSecond)
              /\ state'.total_seconds > 0
              /\ persisted[Unwrap(state'.current_session_id)] = NoCalls
        /\ \A id \in SessionIds : persisted'[id].finished <= 1
      ]_vars

\* a tick that came 35 minutes late completed the 25-minute phase once and the
\* next phase runs from the time of that tick
C10_Witness ==
    /\ ticker.pc = "persist"
    /\ Unwrap(ticker.session).planned_duration = 1500
    /\ Unwrap(ticker.session).duration = 3600
    /\ persisted[Unwrap(ticker.session).id].finished = 1
    /\ state.state = "Running"
    /\ state.phase_end_time = Some(now + state.total_seconds * SubSecond)

\* C11: skip() in a non-Idle phase builds a session record marked skipped from
\* the state it finds, stops the engine, and starts the opposite phase Running:
\* after Work it starts Break with the cursor where it was and returns
\* should_show_reminder = TRUE; after Break it advances the cursor one ring step
\* (when segments were active), starts Work and returns FALSE.
C11_SkipStartsOppositePhase ==
    [][ /\ ((CmdSkip \/ FlowSkip) /\ state.phase # "Idle")
           => /\ state' = state
              /\ caller'.pc = "skip_stop"
              /\ caller'.previous_phase = state.phase
              /\ caller'.segmented_active = has_segments(state)
              /\ LET r == Unwrap(caller'.session)
                 IN /\ r.is_skipped = TRUE
                    /\ r.session_type = state.phase
                    /\ r.id = Unwrap(state.current_session_id)
                    /\ r.start_time = Unwrap(state.current_session_start)
                    /\ r.end_time = now
                    /\ r.planned_duration = state.total_seconds
        /\ SkipStop
           => /\ state'.phase = "Idle" /\ state'.state = "Stopped"
              /\ cursor(state') = cursor(state)
              /\ caller'.pc = "skip_advance"
                   <=> (caller.previous_phase = "Break" /\ caller.segmented_active)
        /\ SkipAdvance
           => /\ caller.previous_phase = "Break"
              /\ cursor(state') = ring_next(state)
        /\ SkipStart
           => /\ cursor(state') = cursor(state)
              /\ state'.state = "Running"
              /\ state'.phase
                   = (IF caller.previous_phase = "Work" THEN "Break" ELSE "Work")
              /\ state'.total_seconds
                   = (IF caller.previous_phase = "Work"
                      THEN break_minutes_at(state) ELSE work_minutes_at(state))
                     * SecondsPerMinute
              /\ state'.remaining_seconds = state'.total_seconds
        /\ (CallerPersist /\ caller.op # "none")
           => /\ returned'
                   = Some([op |-> "skip", session |-> Unwrap(caller.session),
                           should_show_reminder |-> caller.previous_phase = "Work"])
              /\ state' = state
      ]_vars

\* the first Break of [{50,10,x2},{25,5,x1}] skipped: Work runs at cursor (0,1)
C11_Witness ==
    /\ completed = "skip"
    /\ IsSome(returned)
    /\ Unwrap(returned).op = "skip"
    /\ Unwrap(returned).should_show_reminder = FALSE
    /\ Unwrap(returned).session.is_skipped
    /\ Unwrap(returned).session.session_type = "Break"
    /\ state.phase = "Work"
    /\ state.state = "Running"
    /\ cursor(state) = <<0, 1>>
    /\ state.total_seconds = 3000

\* C12: skip() called while the phase is Idle returns nothing, saves no session
\* record, starts no phase and leaves the whole engine state unchanged.
C12_SkipWhileIdleIsNoOp ==
    [][ (CmdSkip /\ state.phase = "Idle")
           => /\ state' = state
              /\ returned' = None
              /\ emitted' = <<>>
              /\ persisted' = persisted
              /\ next_uuid' = next_uuid
              /\ caller' = caller
              /\ completed' = "skip"
      ]_vars

C12_Witness ==
    /\ completed = "skip"
    /\ returned = None
    /\ state.phase = "Idle"
    /\ state.state = "Stopped"
    /\ caller.pc = "idle"

\* a pause() that finds the engine Running with a deadline
PauseActs ==
    /\ CmdPause \/ PowerPause
    /\ state.state = "Running"
    /\ IsSome(state.phase_end_time)

\* a resume() that finds the engine Paused
ResumeActs == (CmdResume \/ PowerResume) /\ state.state = "Paused"

\* C13 as stated: pause() at time t before the deadline freezes
\* remaining_seconds at exactly (deadline - t) and clears the deadline, and
\* resume() sets the deadline to its own now + the frozen remaining time, so a
\* resume at the time of the pause restores the deadline.
C13_PauseFreezesExactRemaining ==
    [][ /\ (PauseActs /\ now <= Unwrap(state.phase_end_time))
           => /\ state'.remaining_seconds * SubSecond
                   = Unwrap(state.phase_end_time) - now
              /\ state'.phase_end_time = None
        /\ ResumeActs
           => state'.phase_end_time
                = Some(now + state.remaining_seconds * SubSecond)
      ]_vars

\* C13 as amended: pause() freezes remaining_seconds at the whole seconds of
\* (deadline - t), rounded down (0 when the deadline has passed), and clears the
\* deadline, changing nothing else but the run state; resume() sets the
\* deadline to its own now + the frozen remaining time, whatever time has
\* passed, and keeps remaining_seconds. A resume at the time of the pause thus
\* gives a deadline earlier than the old one by less than one second.
C13_PauseFreezesWholeSeconds ==
    [][ /\ PauseActs
           => /\ state'
                   = [state EXCEPT
                        !.state = "Paused",
                        !.phase_end_time = None,
                        !.remaining_seconds
                            = IF now >= Unwrap(state.phase_end_time) THEN 0
                              ELSE (Unwrap(state.phase_end_time) - now)
                                       \div SubSecond]
              /\ now <= Unwrap(state.phase_end_time)
                   => /\ now + state'.remaining_seconds * SubSecond
                            <= Unwrap(state.phase_end_time)
                      /\ now + state'.remaining_seconds * SubSecond
                            > Unwrap(state.phase_end_time) - SubSecond
        /\ ResumeActs
           => state'
                = [state EXCEPT
                     !.state = "Running",
                     !.phase_end_time
                         = Some(now + state.remaining_seconds * SubSecond),
                     !.paused_due_to_display_off = FALSE,
                     !.paused_due_to_system_suspend = FALSE]
      ]_vars

\* paused half a second into a 50-minute phase and resumed later: 2999 s remain
\* from the time of the resume
C13_Witness ==
    /\ completed = "resume"
    /\ state.state = "Running"
    /\ state.current_session_start = Some(0)
    /\ state.total_seconds = 3000
    /\ state.remaining_seconds = 2999
    /\ now > 1
    /\ state.phase_end_time = Some(now + 2999 * SubSecond)

\* C14: extend(m), in any run state, adds max(m,1)*60 seconds to
\* remaining_seconds and to total_seconds, and to the deadline when there is
\* one, and changes nothing else; it saves and returns no session.
C14_ExtendOnlyAdds ==
    [][ CmdExtend
           => /\ \E m \in {0, ExtendMinutes} :
                   LET add == (IF m < 1 THEN 1 ELSE m) * SecondsPerMinute
                   IN state'
                        = [state EXCEPT
                             !.remaining_seconds = @ + add,
                             !.total_seconds = @ + add,
                             !.phase_end_time
                                 = IF state.phase_end_time = None THEN None
                                   ELSE Some(state.phase_end_time[1]
                                                 + add * SubSecond)]
              /\ state'.remaining_seconds > state.remaining_seconds
              /\ persisted' = persisted
              /\ returned' = None
              /\ caller' = caller
              /\ next_uuid' = next_uuid
      ]_vars

\* extend(0) half a second into a 25-minute phase, after a tick: one more
\* minute on remaining, total and deadline
C14_Witness ==
    /\ completed = "extend"
    /\ state.state = "Running"
    /\ state.current_session_start = Some(0)
    /\ state.total_seconds = 1500 + SecondsPerMinute
    /\ state.remaining_seconds = 1499 + SecondsPerMinute
    /\ state.phase_end_time = Some((1500 + SecondsPerMinute) * SubSecond)

\* C15: stop(), as a command or inside skip(), leaves the engine Idle/Stopped
\* with no deadline, no session id or start time, remaining_seconds =
\* total_seconds = 0 and both pause-cause flags false; the cursor, the
\* configuration and the suppression deadline are unchanged and no session
\* record is saved or returned.
C15_StopResets ==
    [][ (CmdStop \/ SkipStop)
           => /\ state'
                   = [state EXCEPT
                        !.phase = "Idle",
                        !.state = "Stopped",
                        !.remaining_seconds = 0,
                        !.total_seconds = 0,
                        !.phase_end_time = None,
                        !.current_session_id = None,
                        !.current_session_start = None,
                        !.paused_due_to_display_off = FALSE,
                        !.paused_due_to_system_suspend = FALSE]
              /\ persisted' = persisted
              /\ returned' = None
              /\ next_uuid' = next_uuid
      ]_vars

\* stopped after the cursor had moved to (0,1): the cursor stays
C15_Witness ==
    /\ completed = "stop"
    /\ state.phase = "Idle"
    /\ state.state = "Stopped"
    /\ state.phase_end_time = None
    /\ state.current_session_id = None
    /\ state.remaining_seconds = 0
    /\ cursor(state) = <<0, 1>>
    /\ has_segments(state)

\* a step that runs the critical section of start_work or start_break
StartActs == CmdStartWork \/ CmdStartBreak \/ TickStart \/ SkipStart

\* C16: after start_work() or start_break(), called as a command or chained by
\* tick() or skip(), both pause-cause flags are false, the engine is Running
\* with remaining_seconds = total_seconds = the phase duration, and a new
\* session id and start time are set.
C16_StartClearsPauseFlags ==
    [][ StartActs
           => /\ state'.paused_due_to_display_off = FALSE
              /\ state'.paused_due_to_system_suspend = FALSE
              /\ state'.state = "Running"
              /\ state'.phase \in {"Work", "Break"}
              /\ state'.remaining_seconds = state'.total_seconds
              /\ state'.total_seconds
                   = (IF state'.phase = "Work" THEN work_minutes_at(state)
                      ELSE break_minutes_at(state)) * SecondsPerMinute
              /\ state'.current_session_id = Some(next_uuid)
              /\ state'.current_session_start = Some(now)
      ]_vars

\* C17: handle_display_power_state(false) while Running sets
\* paused_due_to_display_off and pauses the engine; in any other run state it
\* changes nothing. handle_display_power_state(true) resumes the engine only if
\* it is Paused with that flag set, and clears the flag; in every other state
\* it changes nothing but the flag, which it clears.
C17_DisplaySignal ==
    [][ /\ CmdDisplay
           => IF caller'.op = "display_off"
              THEN /\ state.state = "Running"
                   /\ caller'.pc = "pause"
                   /\ state' = [state EXCEPT !.paused_due_to_display_off = TRUE]
              ELSE IF completed' = "display_off"
              THEN /\ state.state # "Running"
                   /\ state' = state
              ELSE IF caller'.op = "display_on"
              THEN /\ state.state = "Paused"
                   /\ state.paused_due_to_display_off
                   /\ caller'.pc = "resume"
                   /\ state' = [state EXCEPT !.paused_due_to_display_off = FALSE]
              ELSE /\ completed' = "display_on"
                   /\ ~(state.state = "Paused" /\ state.paused_due_to_display_off)
                   /\ state' = [state EXCEPT !.paused_due_to_display_off = FALSE]
        /\ (PowerPause /\ caller.op = "display_off")
           => /\ state'.state = "Paused"
              /\ state'.phase_end_time = None
              /\ state'.paused_due_to_display_off = state.paused_due_to_display_off
        /\ (PowerResume /\ caller.op = "display_on")
           => IF state.state = "Paused"
              THEN /\ state'.state = "Running"
                   /\ state'.paused_due_to_display_off = FALSE
                   /\ state'.remaining_seconds = state.remaining_seconds
                   /\ state'.phase_end_time
                        = Some(now + state.remaining_seconds * SubSecond)
              ELSE state' = state
      ]_vars

\* the display went off half a second into the phase and came back later
C17_Witness ==
    /\ completed = "display_on"
    /\ state.state = "Running"
    /\ state.paused_due_to_display_off = FALSE
    /\ state.current_session_start = Some(0)
    /\ state.remaining_seconds = 2999
    /\ now > 1
    /\ state.phase_end_time = Some(now + 2999 * SubSecond)

\* C18: a pause the user made with pause() is never reversed by a power signal:
\* the resume() of handle_display_power_state(true) acts only on a pause caused
\* by display-off, that of handle_system_resume() only on a pause caused by
\* system suspend.
C18_SignalsResumeOnlyTheirOwnPause ==
    [][ (PowerResume /\ state.state = "Paused")
           => \/ caller.op = "display_on" /\ pause_cause = "display_off"
              \/ caller.op = "system_resume" /\ pause_cause = "system_suspend"
      ]_vars

\* C19: with the suspend flag unset, display-off while Running sets the display
\* flag and pauses; a system suspend that finds the engine so paused changes
\* nothing (display flag set, suspend flag unset); display-on then clears the
\* display flag and resumes; a system resume that finds the engine Running
\* changes nothing.
C19_DisplayThenSuspendSequence ==
    [][ ~state.paused_due_to_system_suspend
           => /\ (CmdDisplay /\ state.state = "Running"
                      /\ caller'.op = "display_off")
                 => /\ caller'.pc = "pause"
                    /\ state'.paused_due_to_display_off
                    /\ ~state'.paused_due_to_system_suspend
              /\ (PowerPause /\ caller.op = "display_off"
                      /\ state.paused_due_to_display_off)
                 => /\ state'.state = "Paused"
                    /\ state'.paused_due_to_display_off
                    /\ ~state'.paused_due_to_system_suspend
              /\ (CmdSuspend /\ state.state = "Paused"
                      /\ state.paused_due_to_display_off)
                 => /\ state' = state
                    /\ caller' = caller
              /\ (CmdDisplay /\ state.state = "Paused"
                      /\ state.paused_due_to_display_off
                      /\ (caller'.op = "display_on" \/ completed' = "display_on"))
                 => /\ caller'.pc = "resume"
                    /\ state'.state = "Paused"
                    /\ ~state'.paused_due_to_display_off
                    /\ ~state'.paused_due_to_system_suspend
              /\ (PowerResume /\ caller.op = "display_on")
                 => /\ state'.state = "Running"
                    /\ ~state'.paused_due_to_display_off
                    /\ ~state'.paused_due_to_system_suspend
              /\ (CmdSystemResume /\ state.state = "Running")
                 => /\ state' = state
                    /\ caller' = caller
      ]_vars

\* start_work and the four signals, the resume later than the pause: the
\* engine runs from the time of the display-on with both flags false
C19_Witness ==
    /\ completed = "system_resume"
    /\ commands = 5
    /\ next_uuid = 1
    /\ state.state = "Running"
    /\ ~state.paused_due_to_display_off
    /\ ~state.paused_due_to_system_suspend
    /\ state.current_session_start = Some(0)
    /\ state.remaining_seconds = 2999
    /\ state.phase_end_time = Some(now + 2999 * SubSecond)
    /\ now > 1

\* the cursor positions of one pass over a plan, in order: segment i (from 0)
\* repeat(i) times
RECURSIVE Unroll(_, _)
Unroll(segs, i) ==
    IF i > Len(segs) THEN <<>>
    ELSE [k \in 1..segs[i].repeat |-> <<i - 1, k - 1>>] \o Unroll(segs, i + 1)

\* C20: on a sanitized plan of length >= 1, one cursor advance from
\* (index, iteration) gives (index, iteration + 1) when iteration + 1 <
\* repeat(index) and ((index + 1) mod len, 0) otherwise; from (0,0) the k-th
\* advance reaches the k-th position (cyclically) of the pass that visits
\* segment i repeat(i) consecutive times in index order, so the cursor is back
\* at (0,0) after the sum of the repeat counts, and it never leaves the range
\* index < len, iteration < repeat(index).
C20_CursorCyclesThroughPlan ==
    [][ CycleAdvance
           => LET segs == state.segments
                  pass == Unroll(segs, 1)
                  index == state.segment_index
                  iteration == state.segment_iteration
              IN /\ Len(segs) >= 1
                 /\ state'.segments = segs
                 /\ cursor(state')
                      = (IF iteration + 1 < segs[index + 1].repeat
                         THEN <<index, iteration + 1>>
                         ELSE <<(index + 1) % Len(segs), 0>>)
                 /\ state'.segment_index < Len(segs)
                 /\ state'.segment_iteration
                      < segs[state'.segment_index + 1].repeat
                 /\ cursor(state) = pass[(commands % Len(pass)) + 1]
                 /\ cursor(state') = pass[(commands' % Len(pass)) + 1]
      ]_vars

\* a plan of three segments with repeats 12, 2, 3: back at (0,0) after 17
C20_Witness ==
    /\ Len(state.segments) = 3
    /\ state.segments[1].repeat = MaxRepeat
    /\ state.segments[2].repeat = 2
    /\ state.segments[3].repeat = 3
    /\ commands = MaxRepeat + 2 + 3
    /\ cursor(state) = <<0, 0>>

\* C21 as stated: the cursor changes only in the advance that follows a
\* completed or skipped Break, or in a configuration update; no step of a tick
\* that completed a Work phase changes it.
C21_CursorChangesOnlyAfterBreak ==
    [][ /\ cursor(state') # cursor(state)
           => \/ TickAdvance /\ ticker.next_phase = "Break"
              \/ SkipAdvance /\ caller.previous_phase = "Break"
              \/ CmdConfigure
        /\ ((Tick \/ TickChainStep) /\ ticker'.next_phase = "Work")
           => cursor(state') = cursor(state)
      ]_vars

\* C21 as amended: the cursor changes only in the advance that follows a
\* completed or skipped Break, in the advance of a tick that completed a Work
\* phase and bypasses the break (suppression active or flow mode), or in a
\* configuration update; a tick that completes a Work phase and goes on to
\* Break leaves the cursor where it was, and so does every start of a phase.
C21_CursorChangesOnlyInAdvance ==
    [][ /\ cursor(state') # cursor(state)
           => \/ TickAdvance /\ ticker.next_phase = "Break"
              \/ TickAdvance /\ ticker.next_phase = "Work"
                     /\ (ticker.suppress_breaks_active \/ ticker.flow_mode)
              \/ SkipAdvance /\ caller.previous_phase = "Break"
              \/ CmdConfigure
        /\ ((Tick \/ TickChainStep) /\ ticker'.next_phase = "Work"
                /\ ~ticker'.suppress_breaks_active /\ ~ticker'.flow_mode)
           => cursor(state') = cursor(state)
        /\ StartActs => cursor(state') = cursor(state)
      ]_vars

\* a tick completed the first Work phase of the plan and started its Break: the
\* cursor is still at the first position
C21_Witness ==
    /\ ticker.pc = "persist"
    /\ ticker.next_phase = "Work"
    /\ ~ticker.suppress_breaks_active
    /\ ~ticker.flow_mode
    /\ ticker.segmented_active
    /\ state.phase = "Break"
    /\ state.total_seconds = 600
    /\ cursor(state) = <<0, 0>>

\* C22: in a run driven only by ticks after start_work, with segmentation
\* active and flow mode off, the session with id n is the Work (n even) or the
\* Break (n odd) of cycle n div 2, and its length is the work or break length
\* of that cycle's entry in the plan expanded by repeat counts, cyclically:
\* for [{50,10,x2},{25,5,x1}] the cycles are 50/10, 50/10, 25/5, 50/10, ...
C22_CycleUsesExpandedPlan ==
    (state.state = "Running" /\ has_segments(state) /\ ~state.flow_mode)
        => LET n == Unwrap(state.current_session_id)
               pass == Unroll(state.segments, 1)
               position == pass[((n \div 2) % Len(pass)) + 1]
               entry == state.segments[position[1] + 1]
           IN /\ state.phase = (IF n % 2 = 0 THEN "Work" ELSE "Break")
              /\ state.total_seconds
                   = (IF n % 2 = 0 THEN entry.work_minutes
                      ELSE entry.break_minutes) * SecondsPerMinute
              /\ IsSome(state.phase_end_time)
                   => Unwrap(state.phase_end_time)
                        = Unwrap(state.current_session_start)
                            + state.total_seconds * SubSecond

\* the Break of the third cycle: five minutes, after 50/10 and 50/10
C22_Witness ==
    /\ ~state.flow_mode
    /\ state.state = "Running"
    /\ state.phase = "Break"
    /\ state.current_session_id = Some(5)
    /\ state.total_seconds = 300
    /\ cursor(state) = <<1, 0>>
    /\ now = seconds(8700)
    /\ state.phase_end_time = Some(seconds(9000))

\* C23: in every reachable state in which segmentation is disabled or the
\* segment list is empty the cursor is (0, 0), and a phase started in such a
\* state runs for the flat base work or break duration.
C23_FlatCursorAndDurations ==
    /\ [](~has_segments(state) => cursor(state) = <<0, 0>>)
    /\ [][ (StartActs /\ ~has_segments(state))
              => /\ cursor(state') = <<0, 0>>
                 /\ state'.total_seconds
                      = (IF state'.phase = "Work" THEN state.base_work_duration
                         ELSE state.base_break_duration) * SecondsPerMinute
                 /\ state'.remaining_seconds = state'.total_seconds
                 /\ state'.phase_end_time
                      = Some(now + state'.total_seconds * SubSecond)
         ]_vars

\* segmentation switched off during the Work phase that followed the first
\* Break of the plan, when the cursor was (0, 1)
C23_Witness ==
    /\ completed = "update_timer_configuration"
    /\ ~state.segmented_enabled
    /\ cursor(state) = <<0, 0>>
    /\ state.phase = "Work"
    /\ state.total_seconds = 3000
    /\ state.current_session_start = Some(seconds(1500))
    /\ state.work_duration = 25

\* C24: in every reachable state with segmentation active, segment_index is
\* less than the number of segments and segment_iteration is less than the
\* repeat count of the segment at segment_index, also after a configuration
\* update that replaces the list.
C24_CursorWithinPlan ==
    has_segments(state)
        => /\ state.segment_index >= 0
           /\ state.segment_index < Len(state.segments)
           /\ state.segment_iteration >= 0
           /\ state.segment_iteration
                < state.segments[state.segment_index + 1].repeat

\* a list of two segments, the second with repeat 1, put in place when the
\* cursor stood at the second segment
C24_Witness ==
    /\ completed = "update_timer_configuration"
    /\ has_segments(state)
    /\ Len(state.segments) = 2
    /\ state.segments[1].repeat = 3
    /\ state.segments[2].repeat = 1
    /\ cursor(state) = <<1, 0>>
    /\ commands = 3

\* C25 as stated: update_timer_configuration leaves the cursor at (0, 0) both
\* when the new list is not longer than segment_index and when the segment at
\* segment_index now has a repeat count not greater than segment_iteration.
C25_ConfigureResetsCursor ==
    [][ (CmdConfigure /\ state'.segmented_enabled
            /\ (\/ Len(state'.segments) <= state.segment_index
                \/ state'.segments[state.segment_index + 1].repeat
                     <= state.segment_iteration))
           => cursor(state') = <<0, 0>>
      ]_vars

\* C25 as amended: update_timer_configuration resets the cursor to (0, 0) when
\* the new list is not longer than segment_index (or segmentation is off
\* afterwards); when the index is still in range and the segment there now has
\* a repeat count not greater than segment_iteration, it resets the iteration
\* to 0 and keeps the index; otherwise it leaves the cursor as it was.
C25_ConfigureRevalidatesCursor ==
    [][ CmdConfigure
           => cursor(state')
                = (IF ~state'.segmented_enabled THEN <<0, 0>>
                   ELSE IF Len(state'.segments) <= state.segment_index
                   THEN <<0, 0>>
                   ELSE IF state'.segments[state.segment_index + 1].repeat
                             <= state.segment_iteration
                   THEN <<state.segment_index, 0>>
                   ELSE cursor(state))
      ]_vars

\* a list of two segments whose second has repeat 2, put in place when the
\* cursor stood at the third pass of the second segment
C25_Witness ==
    /\ completed = "update_timer_configuration"
    /\ has_segments(state)
    /\ Len(state.segments) = 2
    /\ state.segments[2].repeat = 2
    /\ cursor(state) = <<1, 0>>
    /\ commands = 4

\* C26: update_timer_configuration called during a Running or Paused phase
\* leaves phase, run state, deadline, remaining_seconds, total_seconds and the
\* session id and start unchanged; the next phase that is started runs for the
\* duration the new configuration gives the cursor's position.
C26_ConfigureKeepsPhaseInProgress ==
    [][ /\ (CmdConfigure /\ state.state \in {"Running", "Paused"})
           => /\ state'.phase = state.phase
              /\ state'.state = state.state
              /\ state'.phase_end_time = state.phase_end_time
              /\ state'.remaining_seconds = state.remaining_seconds
              /\ state'.total_seconds = state.total_seconds
              /\ state'.current_session_id = state.current_session_id
              /\ state'.current_session_start = state.current_session_start
              /\ completed' = "update_timer_configuration"
        /\ StartActs
           => state'.total_seconds
                = (IF state'.phase = "Work" THEN work_minutes_at(state)
                   ELSE break_minutes_at(state)) * SecondsPerMinute
      ]_vars

\* the flat 25-minute Work phase goes on to its deadline after the plan
\* [{50,10,x2},{25,5,x1}] was put in place half a second into it
C26_Witness ==
    /\ completed = "update_timer_configuration"
    /\ now = 1
    /\ has_segments(state)
    /\ state.work_duration = 50
    /\ state.phase = "Work"
    /\ state.state = "Running"
    /\ state.total_seconds = 1500
    /\ state.remaining_seconds = 1500
    /\ state.phase_end_time = Some(seconds(1500))
    /\ state.current_session_start = Some(0)

C28_SuppressionExpires ==
    [][ /\ (Tick /\ state.state = "Running"
                /\ IsSome(state.suppress_breaks_until)
                /\ now >= Unwrap(state.suppress_breaks_until))
           => /\ state'.suppress_breaks_until = None
              /\ (DeadlineReached /\ state.phase = "Work" /\ ~state.flow_mode)
                   => /\ ticker'.pc = "chain"
                      /\ ticker'.next_phase = "Work"
                      /\ ~ticker'.suppress_breaks_active
                      /\ ~chain_to_work(ticker')
        /\ (TickStart /\ ticker.next_phase = "Work"
                /\ ~ticker.suppress_breaks_active /\ ~ticker.flow_mode)
           => state'.phase = "Break" /\ state'.state = "Running"
        /\ (TickCompletes /\ state.phase = "Work")
           => /\ ticker'.suppress_breaks_active
                   <=> (IsSome(state.suppress_breaks_until)
                            /\ now < Unwrap(state.suppress_breaks_until))
              /\ ticker'.suppress_breaks_active
                   => state'.suppress_breaks_until = state.suppress_breaks_until
        /\ CmdSuppress
           => /\ \E n \in SuppressHours :
                     state'.suppress_breaks_until
                         = Some(now + Max(n, 1) * SecondsPerHour * SubSecond)
              /\ completed' = "suppress_breaks_for_hours"
      ]_vars

\* a one-hour window set at 0: the Work phase that completed at 1500 s chained
\* to Work, the tick at 3600 s cleared the window and goes on to Break
C28_Witness ==
    /\ ticker.pc = "chain"
    /\ ticker.next_phase = "Work"
    /\ ~ticker.suppress_breaks_active
    /\ ~ticker.flow_mode
    /\ ~state.flow_mode
    /\ ~has_segments(state)
    /\ state.suppress_breaks_until = None
    /\ now = seconds(3600)
    /\ state.current_session_id = Some(1)
    /\ state.current_session_start = Some(seconds(1500))
    /\ persisted[0].finished = 1
    /\ persisted[1].finished = 1
    /\ commands = 2

\* the instant from which the predictor allows a break: the end of the
\* suppression window while it is in the future, otherwise now
allow_from ==
    IF SuppressionInFuture THEN Unwrap(state.suppress_breaks_until) ELSE now

\* the predictor's first candidate in the flat case
first_candidate ==
    IF state.phase = "Work" THEN predicted_phase_end(state, now)
    ELSE predicted_phase_end(state, now)
             + state.base_work_duration * SecondsPerMinute * SubSecond

\* C29: in every non-Idle state with flow mode off the next_break_time of
\* get_info() is present, not earlier than now and not earlier than
\* suppress_breaks_until when that is in the future; in the flat case it is
\* less than one base work length after that bound whenever the first candidate
\* preceded the bound.
C29_NextBreakNotBeforeAllowed ==
    (state.phase # "Idle" /\ ~state.flow_mode)
        => LET next_break_time == get_info(state, now).next_break_time
           IN /\ IsSome(next_break_time)
              /\ Unwrap(next_break_time) >= now
              /\ Unwrap(next_break_time) >= allow_from
              /\ (~has_segments(state) /\ first_candidate < allow_from)
                   => Unwrap(next_break_time)
                        < allow_from
                            + state.base_work_duration * SecondsPerMinute * SubSecond

\* C30: for a Running engine with flow mode off that receives no further
\* command and whose ticker misses no tick, the next_break_time get_info()
\* returned is the instant at which the engine next enters Break, with and
\* without a suppression window, flat and segmented.
C30_NextBreakIsWhenBreakBegins ==
    [][ (/\ state'.phase = "Break"
         /\ state.phase # "Break"
         /\ commands' = commands
         /\ IsSome(forecast)
         /\ Unwrap(forecast).between_ticks
         /\ Unwrap(forecast).info.state = "Running"
         /\ IsSome(Unwrap(forecast).info.next_break_time))
           => now = Unwrap(Unwrap(forecast).info.next_break_time)
      ]_vars

\* C31: get_info() changes no field of the engine state (an expired
\* suppress_breaks_until stays as it is), returns the phase, run state,
\* remaining and total seconds and deadline of the state it read, and returns
\* next_break_time = None whenever the phase is Idle or flow_mode is true.
C31_GetInfoIsReadOnlySnapshot ==
    [][ GetInfo
           => /\ state' = state
              /\ IsSome(forecast')
              /\ LET info == Unwrap(forecast').info
                 IN /\ info.phase = state.phase
                    /\ info.state = state.state
                    /\ info.remaining_seconds = state.remaining_seconds
                    /\ info.total_seconds = state.total_seconds
                    /\ info.next_transition_time = state.phase_end_time
                    /\ (state.phase = "Idle" \/ state.flow_mode)
                          => info.next_break_time = None
      ]_vars

\* get_info() of a Running Work phase in flow mode, read after the suppression
\* window has expired and before any tick cleared it
C31_Witness ==
    /\ completed = "get_info"
    /\ state.flow_mode
    /\ state.phase = "Work"
    /\ state.state = "Running"
    /\ IsSome(state.suppress_breaks_until)
    /\ now >= Unwrap(state.suppress_breaks_until)
    /\ IsSome(forecast)
    /\ Unwrap(forecast).info.next_break_time = None
    /\ Unwrap(forecast).info.next_transition_time = state.phase_end_time
    /\ Unwrap(forecast).info.remaining_seconds = state.remaining_seconds

\* a tick chain that follows a completed Work phase with neither suppression
\* nor flow mode read at the completion: the chain that starts Break
TickChainsToBreak ==
    /\ ticker.next_phase = "Work"
    /\ ~ticker.suppress_breaks_active
    /\ ~ticker.flow_mode

\* a skip command (skip_phase, the tray) that read a Work phase
SkipsWork == caller.op = "skip" /\ caller.previous_phase = "Work"

OnlyPlaceholder == [placeholder |-> 1, finished |-> 0, skipped |-> 0]

TickFinishes ==
    (Tick \/ TickEmitFails) /\ state.state = "Running" /\ DeadlineReached

\* C34: a failed emission never aborts the transition: the tick that finds the
\* deadline reached goes on to start the next phase, a skip() that has stopped
\* the engine goes on to start the opposite phase, and between operations the
\* engine is never Running without a deadline.
C34_EmitFailureNeverAborts ==
    /\ []((ticker.pc = "wait" /\ caller.pc = "idle" /\ state.state = "Running")
             => IsSome(state.phase_end_time))
    /\ [][ /\ TickFinishes => ticker'.pc = "chain"
           /\ (TickStart \/ TickStartEmitFails)
              => state'.state = "Running" /\ IsSome(state'.phase_end_time)
           /\ (SkipStop \/ SkipStopEmitFails)
              => caller'.pc \in {"skip_advance", "skip_start"}
           /\ (SkipStart \/ SkipStartEmitFails)
              => /\ state'.state = "Running"
                 /\ state'.phase
                      = (IF caller.previous_phase = "Work" THEN "Break" ELSE "Work")
         ]_vars

\* C35: a phase instance ends exactly once, whatever the interleaving of skip()
\* with a finishing tick(): its session id gets a finished record or a skipped
\* record, never both, and a tick and a skip are never both on their way to
\* start the successor (and raise the reminder) of the same phase instance.
C35_PhaseEndsExactlyOnce ==
    /\ \A id \in SessionIds : persisted[id].finished + persisted[id].skipped <= 1
    /\ ~(/\ ticker.pc \in {"chain", "start"}
          /\ caller.pc \in {"skip_stop", "skip_advance", "skip_start"}
          /\ Unwrap(ticker.session).id = Unwrap(caller.session).id)

\* C36: a tick never starts a phase from the Stopped state: when stop() has
\* taken effect between the critical section of a finishing tick and its
\* chained start, every later step of that tick leaves the engine Idle/Stopped.
C36_TickNeverStartsFromStopped ==
    [][ (TickChainStep /\ state.state = "Stopped")
           => (state'.phase = "Idle" /\ state'.state = "Stopped")
      ]_vars

\* C37: under every interleaving with the ticker, the pause() that
\* handle_display_power_state(false) calls after it found the engine Running and
\* set the flag leaves the engine Paused with paused_due_to_display_off set.
C37_DisplayOffPausesWithFlag ==
    [][ (PowerPause /\ caller.op = "display_off")
           => (state'.state = "Paused" /\ state'.paused_due_to_display_off)
      ]_vars

\* the phase after this one when nothing bypasses the break
opposite(phase) == IF phase = "Work" THEN "Break" ELSE "Work"

\* the engine runs session id in the given phase towards a deadline the clock
\* of the run reaches, and no command is under way or will arrive
RunsUndisturbed(id, phase) ==
    /\ state.state = "Running"
    /\ state.phase = phase
    /\ state.current_session_id = Some(id)
    /\ IsSome(state.phase_end_time)
    /\ \E t \in scope.instants : Unwrap(state.phase_end_time) <= t
    /\ caller.pc = "idle"
    /\ commands = scope.budget

\* C38: a Running phase that no command disturbs eventually completes (its
\* session gets its finished record) and the next session is started Running
\* with a deadline; with flow_mode off and no suppression window the next phase
\* is the opposite one, so the phases alternate Work, Break, Work, ...
C38_PhasesCompleteAndAlternate ==
    \A id \in 0..(MaxSessions - 2) : \A phase \in {"Work", "Break"} :
        RunsUndisturbed(id, phase)
            ~> (/\ persisted[id].finished = 1
                /\ state.state = "Running"
                /\ state.current_session_id = Some(id + 1)
                /\ IsSome(state.phase_end_time)
                /\ state.current_session_start = Some(now)
                /\ (~state.flow_mode /\ state.suppress_breaks_until = None)
                      => state.phase = opposite(phase))

\* the third Work phase of the run: Work, Break, Work, Break, Work
C38_Witness ==
    /\ ~state.flow_mode
    /\ state.phase = "Work"
    /\ state.state = "Running"
    /\ state.current_session_id = Some(2)
    /\ state.current_session_start = Some(now)
    /\ has_segments(state)
    /\ \A id \in 0..1 : persisted[id].finished = 1

\* both writes of a session were issued and every write for it has completed
WritesCompleted(id) ==
    /\ persisted[id].placeholder >= 1
    /\ persisted[id].finished + persisted[id].skipped >= 1
    /\ \A w \in in_flight : w.id # id

\* C39: for every session id, once the placeholder write issued at phase start
\* and the final write issued at finish or skip have both completed, the record
\* stored under the id is the final record, not the placeholder.
C39_PlaceholderNeverOverwritesFinal ==
    \A id \in SessionIds :
        WritesCompleted(id) => stored[id] \in {"finished", "skipped"}

\* the valid cursor positions of the engine's plan: an index into the plan and
\* an iteration below that segment's effective repeat; (0, 0) without a plan
ValidPositions(s) ==
    IF has_segments(s)
    THEN {<<i, k>> \in (0..(Len(s.segments) - 1)) \X (0..MaxRepeat) :
              k < Max(seg(s, i).repeat, 1)}
    ELSE {<<0, 0>>}

\* C40: for the engine's plan and every valid cursor position of it,
\* next_cycle_position(index, iteration) is the (index, iteration) that
\* advance_segment_cycle sets from that position; in particular the position
\* the engine is at.
C40_PredictorWalksRingAsEngine ==
    /\ cursor(state) \in ValidPositions(state)
    /\ \A pos \in ValidPositions(state) :
           cursor(advance_segment_cycle(
                      [state EXCEPT !.segment_index = pos[1],
                                    !.segment_iteration = pos[2]]))
               = next_cycle_position(state, pos[1], pos[2])

\* a three-segment plan whose last segment repeats: the engine has advanced
\* through the first two segments and stands in the second pass of the third
C40_Witness ==
    /\ Len(state.segments) = 3
    /\ seg(state, 0).repeat = 2
    /\ seg(state, 2).repeat = 3
    /\ cursor(state) = <<2, 1>>
    /\ commands > 3
    /\ next_cycle_position(state, 2, 1) = <<2, 2>>
    /\ next_cycle_position(state, 2, 2) = <<0, 0>>

====
